---- MODULE Spec2Model ----
(***************************************************************************)
(* The sync-to-external replication gateway                                *)
(* (supabase/functions/sync-to-external/index.ts).                         *)
(*                                                                         *)
(* One request is served at a time.  Every await on a store is one step:   *)
(* the handler sends the operation, the store answers, and the handler     *)
(* runs up to its next await.  The source file holds two copies of the     *)
(* handler (lines 18-222 with upsertWithAutoDrop, lines 232-365 without);  *)
(* handlerCopy says which one is deployed.                                 *)
(***************************************************************************)
EXTENDS Integers, Sequences, FiniteSets, TLC

VARIABLES
    handlerCopy,     \* 1: lines 18-222, 2: lines 232-365 of index.ts
    db,              \* store -> table name -> (id -> stored row)
    schema,          \* store -> table name -> set of the table's columns
    served,          \* number of requests received so far
    pc,              \* "idle", or the await the handler is suspended at
    req,             \* the request being served (the last one when idle)
    cfg,             \* what Deno.env.get returned to this request
    dataToSend,      \* upsertWithAutoDrop: payload of the next attempt
    droppedColumns,  \* upsertWithAutoDrop: columns dropped so far, in order
    attempt,         \* upsertWithAutoDrop: loop counter
    allData,         \* SYNC_ALL: rows fetched from the primary
    i,               \* SYNC_ALL: offset of the current batch
    droppedSet,      \* SYNC_ALL: Set of dropped columns, in insertion order
    response,        \* the Response returned for req (NoResponse while running)
    ops,             \* history: store operations issued for req, with replies
    batchDrops,      \* history: droppedColumns returned by each batch of req
    dbBefore,        \* history: db when req was received
    schemaBefore,    \* history: schema when req was received
    prevSame         \* history: the response to the request served before
                     \* req when that was this same request, else NoResponse

\* an admin editing surface (src/components/admin) and the one row it edits
VARIABLES
    surface,          \* the table the surface edits
    uiPc,             \* "idle", or the await its handler is suspended at
    editing,          \* editingCourse, editingInstructor, ... is not null
    saving,           \* useState saving
    dialogOpen,       \* useState dialogOpen
    deleteDialogOpen, \* useState deleteDialogOpen
    prow,             \* the row in the primary: Absent or its values
    srow,             \* the row in the secondary: Absent or its values
    net,              \* invocations of sync-to-external in flight
    sent,             \* history: payloads passed to syncToExternal, in order
    commits,          \* history: changes committed to the primary, in order
    returned,         \* history: how each call of syncToExternal ended
    toast             \* the toast shown last ("none" before the first)

gatewayVars == <<handlerCopy, db, schema, served, pc, req, cfg, dataToSend,
                 droppedColumns, attempt, allData, i, droppedSet, response,
                 ops, batchDrops, dbBefore, schemaBefore, prevSame>>

surfaceVars == <<surface, uiPc, editing, saving, dialogOpen, deleteDialogOpen,
                 prow, srow, net, sent, commits, returned, toast>>

\* The router of the application (App.tsx, two copies in the source).
VARIABLES
    routeCopy,        \* 1: lines 1-100, 2: lines 104-182 of part_000
    auth,             \* what useAuth() returns: loading, session, role
    path,             \* the location
    rendered          \* what AppRoutes renders at that location

routeVars == <<routeCopy, auth, path, rendered>>

\* The edge function create-demo-users and the database it seeds.
VARIABLES
    seedPc,               \* "idle", or the step the handler is at
    seedDb,               \* table name -> rows
    departmentId,         \* const departmentId
    courseIds,            \* const courseIds
    studentRowId,         \* const studentRowId
    additionalStudentIds, \* const additionalStudentIds
    seedI,                \* loop counter of the additional students' data
    seedResponse,         \* the Response of the last request
    seeded,               \* history: a request has ended with success
    seedBefore            \* history: seedDb and seeded when the request began

seedVars == <<seedPc, seedDb, departmentId, courseIds, studentRowId,
              additionalStudentIds, seedI, seedResponse, seeded, seedBefore>>

\* AuthProvider (Index.tsx lines 47-157) and the supabase auth client.
VARIABLES
    authClient,   \* supabase.auth: the user of the client's session
    authSession,  \* useState session, by the user it belongs to
    authUser,     \* useState user
    authRole,     \* useState role
    authLoading,  \* useState loading
    getSessionPc, \* "pending" until getSession() of the effect resolves
    signInPc,     \* the await signIn is suspended at, and its user
    signOutPc,    \* signOut is suspended at its await
    timers,       \* setTimeout callbacks of the listener not yet run
    fetches,      \* calls of fetchUserRole that have not resolved
    authCalls     \* number of sign-ins, sign-outs and refreshes so far

authVars == <<authClient, authSession, authUser, authRole, authLoading,
              getSessionPc, signInPc, signOutPc, timers, fetches, authCalls>>

\* what the gateway's steps leave alone
otherVars == <<surfaceVars, routeVars, seedVars, authVars>>

\* what the surfaces' steps leave alone
besideSurface == <<gatewayVars, routeVars, seedVars, authVars>>

\* what the router's steps leave alone
besideRoute == <<gatewayVars, surfaceVars, seedVars, authVars>>

\* what the seeding function's steps leave alone
besideSeed == <<gatewayVars, surfaceVars, routeVars, authVars>>

\* what AuthProvider's steps leave alone
besideAuth == <<gatewayVars, surfaceVars, routeVars, seedVars>>

vars == <<gatewayVars, otherVars>>

primary == db["primary"]
secondary == db["secondary"]

(***************************************************************************)
(* Bounds of the model.                                                    *)
(***************************************************************************)
MaxRequests == 2     \* requests served in one behaviour
MaxGhost == 11       \* extra columns a request row may carry
SmallGhost == 2      \* extra columns of a request row in the small scenario
SmallRows == 2       \* rows of a primary table in the small scenario
MaxRows == 250       \* rows of the largest primary table
MaxValue == 2        \* column values are 1..MaxValue
MaxEdits == 3        \* changes an editing surface commits in one behaviour
MaxCalls == 3        \* calls of the client helpers in one behaviour
MaxAdditional == 1   \* ADDITIONAL_STUDENTS seeded (7 in the source)
MaxAuthCalls == 3    \* sign-ins, sign-outs and refreshes in one behaviour
MaxDates == 1        \* dates of their attendance (5 in the source)

(***************************************************************************)
(* Program constants.                                                      *)
(***************************************************************************)
\* mutant of maxAttempts: a loop of nine attempts
maxAttemptsNine == 10 - 1

\* mutant of maxAttempts: a loop of twice as many attempts
maxAttemptsDoubled == 10 * 2

\* mutant of maxAttempts: the loop bound is off by one (attempt <= 10)
maxAttemptsOffByOne == 10 + 1

maxAttempts == 10
\* mutant of batchSize: another batch size
batchSizeHalf == 100 \div 2

batchSize == 100

Min(a, b) == IF a < b THEN a ELSE b

Range(s) == {s[k] : k \in 1..Len(s)}

(***************************************************************************)
(* JSON values: objects (rows: column -> value), arrays of values, null.   *)
(* SQL NULL in a stored row is 0; ids and values are positive.             *)
(***************************************************************************)
Null == 0
JsonNull == [t |-> "null"]
Obj(row) == [t |-> "obj", v |-> row]
Arr(items) == [t |-> "arr", v |-> items]

IsObj(x) == x.t = "obj"
IsArr(x) == x.t = "arr"

(***************************************************************************)
(* Column names.  ColumnPool: columns a row may carry beyond id and name.  *)
(***************************************************************************)
ColumnPool ==
    <<"ghost_column", "extra_02", "extra_03", "extra_04", "extra_05",
      "extra_06", "extra_07", "extra_08", "extra_09", "extra_10",
      "extra_11", "extra_12", "extra_13", "extra_14">>

GhostColumns(k) == {ColumnPool[j] : j \in 1..k}

MkRow(id, v, cols) == [c \in cols |-> IF c = "id" THEN id ELSE v]

RequestRow(id, v, k) == MkRow(id, v, {"id", "name"} \cup GhostColumns(k))

(***************************************************************************)
(* removeColumnFromData (lines 51-71).                                     *)
(***************************************************************************)
removeFromRow(row, column) == [c \in (DOMAIN row) \ {column} |-> row[c]]

\* mutant of removeColumnFromData: the rows of an array come back reversed
removeColumnFromDataReversed(raw, column) ==
    IF IsArr(raw)
    THEN Arr([k \in 1..Len(raw.v) |->
                 IF IsObj(raw.v[Len(raw.v) + 1 - k])
                 THEN Obj(removeFromRow(raw.v[Len(raw.v) + 1 - k].v, column))
                 ELSE raw.v[Len(raw.v) + 1 - k]])
    ELSE IF IsObj(raw)
    THEN Obj(removeFromRow(raw.v, column))
    ELSE raw

\* mutant of removeColumnFromData: only the first row of an array is stripped
removeColumnFromDataFirstRow(raw, column) ==
    IF IsArr(raw)
    THEN Arr([k \in 1..Len(raw.v) |->
                 IF IsObj(raw.v[k]) /\ k = 1
                 THEN Obj(removeFromRow(raw.v[k].v, column))
                 ELSE raw.v[k]])
    ELSE IF IsObj(raw)
    THEN Obj(removeFromRow(raw.v, column))
    ELSE raw

\* mutant of removeColumnFromData: the column is recorded but stays in the
\* payload
removeColumnFromDataKeeps(raw, column) == raw

removeColumnFromData(raw, column) ==
    IF IsArr(raw)
    THEN Arr([k \in 1..Len(raw.v) |->
                 IF IsObj(raw.v[k])
                 THEN Obj(removeFromRow(raw.v[k].v, column))
                 ELSE raw.v[k]])
    ELSE IF IsObj(raw)
    THEN Obj(removeFromRow(raw.v, column))
    ELSE raw

(***************************************************************************)
(* Errors.  A store error is a plain object {code, message}; an Error      *)
(* thrown by the handler is an Error instance.  A message is a sequence    *)
(* of text pieces, so that the pattern match of line 90 is computed.       *)
(***************************************************************************)
NoError == [isError |-> FALSE, code |-> "", message |-> <<>>]
NewError(message) == [isError |-> TRUE, code |-> "", message |-> message]

CouldNotFind == "Could not find the '"
ColumnOf == "' column of '"

MissingColumnError(column, table) ==
    [isError |-> FALSE, code |-> "PGRST204",
     message |-> <<CouldNotFind, column, ColumnOf, table,
                   "' in the schema cache">>]

PermissionDenied(table) ==
    [isError |-> FALSE, code |-> "42501",
     message |-> <<"permission denied for table ", table>>]

\* message.match(/Could not find the '([^']+)' column/)?.[1]; "" when there
\* is no match (undefined, falsy like the empty string)
matchMissingColumn(message) ==
    LET hits == {p \in 1..Len(message) :
                    /\ message[p] = CouldNotFind
                    /\ p + 2 <= Len(message)
                    /\ message[p + 1] # ""
                    /\ message[p + 2] = ColumnOf}
    IN  IF hits = {} THEN ""
        ELSE message[(CHOOSE p \in hits : \A q \in hits : p <= q) + 1]

\* droppedColumns.join(", ") appended to the text of line 108
ExhaustedError(dropped) ==
    NewError(<<"[sync-to-external] Upsert failed after dropping columns: ">>
             \o dropped)

(***************************************************************************)
(* Responses (lines 21, 33-36, 210-212, 213-221).                          *)
(***************************************************************************)
NoResponse == [status |-> 0, body |-> <<>>]
PreflightResponse == [status |-> 200, body |-> <<>>]
CredentialsResponse(text) == [status |-> 500, body |-> [error |-> <<text>>]]
SuccessResponse(result) ==
    [status |-> 200, body |-> [success |-> TRUE, result |-> result]]

\* a catch block that leaves the status to its default
CatchResponseDefaultStatus(error) ==
    [status |-> 200,
     body |-> [error |-> IF error.isError THEN error.message
                         ELSE <<"Unknown error">>,
               details |-> [stack |-> error.isError,
                            code |-> error.code,
                            message |-> error.message]]]

\* a catch block that never takes the message of what was thrown
CatchResponseNoMessage(error) ==
    [status |-> 500,
     body |-> [error |-> <<"Unknown error">>,
               details |-> [stack |-> error.isError,
                            code |-> error.code,
                            message |-> error.message]]]

\* the catch block: Error instances give message and stack, anything else
\* "Unknown error" and its JSON text
CatchResponse(error) ==
    [status |-> 500,
     body |-> [error |-> IF error.isError THEN error.message
                         ELSE <<"Unknown error">>,
               details |-> [stack |-> error.isError,
                            code |-> error.code,
                            message |-> error.message]]]

IsSuccess(r) == r.status = 200 /\ "success" \in DOMAIN r.body
IsFailure(r) == r.status = 500 /\ "error" \in DOMAIN r.body

(***************************************************************************)
(* The stores, as the handler's client calls see them.                     *)
(***************************************************************************)
Tables == {"departments", "notices"}

\* the allow-list of lines 153-165, each column list split at the commas
tableColumns ==
    [students |-> <<"id", "student_id", "name", "email", "phone", "gender",
                    "department_id", "semester", "status", "created_at",
                    "updated_at", "enrollment_date">>,
     courses |-> <<"id", "code", "name", "description", "credits",
                   "department_id", "instructor_id", "semester",
                   "created_at", "updated_at">>,
     departments |-> <<"id", "code", "name", "description", "head_name",
                       "created_at", "updated_at">>,
     instructors |-> <<"id", "name", "email", "phone", "department_id",
                       "qualification", "specialization", "created_at",
                       "updated_at">>,
     enrollments |-> <<"id", "student_id", "course_id", "enrollment_date",
                       "status", "created_at">>,
     attendance |-> <<"id", "student_id", "course_id", "date", "status",
                      "remarks", "created_at">>,
     results |-> <<"id", "student_id", "course_id", "exam_type",
                   "marks_obtained", "total_marks", "grade", "remarks",
                   "created_at", "updated_at">>]

\* mutant of selectColumns: every table is read whole
selectColumnsStar(table) == <<"*">>

\* const columns = tableColumns[table] || "*"  (line 167)
selectColumns(table) ==
    IF table \in DOMAIN tableColumns THEN tableColumns[table] ELSE <<"*">>

\* columns of the primary's tables, before any extra column
PrimaryColumns(table) ==
    IF table = "departments" THEN Range(tableColumns.departments)
    ELSE {"id", "name"}

\* the order in which a store looks at the columns of a payload
ColumnOrder == tableColumns.departments \o ColumnPool
ColumnIndex(c) == CHOOSE k \in 1..Len(ColumnOrder) : ColumnOrder[k] = c

PayloadItems(d) == IF IsArr(d) THEN d.v ELSE <<d>>

PayloadColumns(d) ==
    UNION {DOMAIN it.v : it \in {x \in Range(PayloadItems(d)) : IsObj(x)}}

\* rows the store can take: objects with an id, no id twice in one command
WellFormed(d) ==
    LET items == PayloadItems(d)
    IN  /\ Len(items) > 0
        /\ \A k \in 1..Len(items) :
              IsObj(items[k]) /\ "id" \in DOMAIN items[k].v
        /\ \A k, l \in 1..Len(items) :
              items[k].v["id"] = items[l].v["id"] => k = l

PayloadIds(d) ==
    IF WellFormed(d)
    THEN [k \in 1..Len(PayloadItems(d)) |-> PayloadItems(d)[k].v["id"]]
    ELSE <<>>

\* The store names one unknown column per rejected command; which one is
\* its choice: here the first or the last of them in ColumnOrder.
ReportedColumns(missing) ==
    {c \in missing :
        \/ \A d \in missing : ColumnIndex(c) <= ColumnIndex(d)
        \/ \A d \in missing : ColumnIndex(c) >= ColumnIndex(d)}

\* replies of externalSupabase.from(table).upsert(d, {onConflict: "id"})
upsertReplies(table, cols, d) ==
    {PermissionDenied(table)} \cup
    IF ~WellFormed(d) THEN {}
    ELSE IF PayloadColumns(d) \subseteq cols THEN {NoError}
    ELSE {MissingColumnError(c, table) :
             c \in ReportedColumns(PayloadColumns(d) \ cols)}

\* INSERT ... ON CONFLICT (id) DO UPDATE: the payload's columns are set,
\* the others keep their value (NULL in a new row)
StoredRow(old, row, cols) ==
    [c \in cols |-> IF c \in DOMAIN row THEN row[c] ELSE old[c]]

\* mutant of upsert: the table is emptied before the rows are stored
upsertReplacing(content, cols, d) ==
    LET items == PayloadItems(d)
        ids == Range(PayloadIds(d))
        rowOf(x) == items[CHOOSE k \in 1..Len(items) : items[k].v["id"] = x].v
    IN  [x \in ids |-> StoredRow([c \in cols |-> Null], rowOf(x), cols)]

upsert(content, cols, d) ==
    LET items == PayloadItems(d)
        ids == Range(PayloadIds(d))
        rowOf(x) == items[CHOOSE k \in 1..Len(items) : items[k].v["id"] = x].v
        old(x) == IF x \in DOMAIN content THEN content[x]
                  ELSE [c \in cols |-> Null]
    IN  [x \in (DOMAIN content) \cup ids |->
            IF x \in ids THEN StoredRow(old(x), rowOf(x), cols)
            ELSE content[x]]

\* externalSupabase.from(table).delete().eq("id", id)
deleteReplies(table) == {NoError, PermissionDenied(table)}

\* mutant of delete: the filter is .neq("id", id)
deleteNotEqual(content, id) == [x \in (DOMAIN content) \cap {id} |-> content[x]]

delete(content, id) == [x \in (DOMAIN content) \ {id} |-> content[x]]

\* lovableSupabase.from(table).select(columns)
selectReplies(table) == {NoError, PermissionDenied(table)}

select(rows, columns) ==
    IF columns = <<"*">> THEN rows
    ELSE [k \in 1..Len(rows) |-> [c \in Range(columns) |-> rows[k][c]]]

\* allData.slice(from, to)
slice(rows, from, to) == SubSeq(rows, from + 1, Min(to, Len(rows)))

\* the batch of line 186 as the payload of one upsert
batchOf(rows, from) ==
    LET batch == slice(rows, from, from + batchSize)
    IN  Arr([k \in 1..Len(batch) |-> Obj(batch[k])])

\* mutant of addAll: the result of the last batch replaces the set
addAllLast(set, columns) == columns

\* a list that keeps every insertion
addAllKeepsDuplicates(set, columns) == set \o columns

\* droppedColumns.forEach((c) => droppedSet.add(c)): a Set keeps the order
\* of first insertion
RECURSIVE addAll(_, _)
addAll(set, columns) ==
    IF columns = <<>> THEN set
    ELSE addAll(IF Head(columns) \in Range(set) THEN set
                ELSE Append(set, Head(columns)),
                Tail(columns))

Op(store, op, table, d, columns, reply) ==
    [store |-> store, op |-> op, table |-> table, ids |-> PayloadIds(d),
     cols |-> columns, reply |-> reply]

(***************************************************************************)
(* Requests and the environment of one invocation.                         *)
(***************************************************************************)
Request(method, operation, table, data, id) ==
    [method |-> method, operation |-> operation, table |-> table,
     data |-> data, id |-> id]

NoRequest == Request("", "", "", JsonNull, Null)

\* the four environment variables: TRUE when set to a non-empty string;
\* at most one of them is missing
Envs ==
    {e \in [externalUrl : BOOLEAN, externalKey : BOOLEAN,
            lovableUrl : BOOLEAN, lovableKey : BOOLEAN] :
        Cardinality({k \in DOMAIN e : ~e[k]}) <= 1}

Unread == [externalUrl |-> "unread", externalKey |-> "unread",
           lovableUrl |-> "unread", lovableKey |-> "unread"]

Seen(b) == IF b THEN "set" ELSE "unset"

\* the text of the two copies' messages (lines 34 and 248, 146 and 297)
credentialsText ==
    IF handlerCopy = 1 THEN "External database credentials not configured"
    ELSE "External Supabase credentials not configured"

primaryCredentialsText ==
    IF handlerCopy = 1 THEN "Primary backend credentials not available"
    ELSE "Lovable Cloud credentials not available"

\* mutant of externalSupabase: the client of the writes is created with the
\* primary's URL and key
externalSupabasePrimary == "primary"

\* the clients of lines 47 and 149, named by the store they are created for
externalSupabase == "secondary"
lovableSupabase == "primary"

\* the stores after a command of `client`, which takes effect when the
\* store's reply is no error
dbAfterUpsert(client, table, d, reply) ==
    IF reply = NoError
    THEN [db EXCEPT ![client][table] = upsert(@, schema[client][table], d)]
    ELSE db

dbAfterDelete(client, table, id, reply) ==
    IF reply = NoError
    THEN [db EXCEPT ![client][table] = delete(@, id)]
    ELSE db

(***************************************************************************)
(* serve: from the arrival of a request to its first await on a store, or  *)
(* to its response when it reaches none (lines 18-47, 112-149, 206-221).   *)
(***************************************************************************)
\* mutant of newDroppedColumns: the array is not local to the call and
\* keeps what earlier calls dropped
newDroppedColumnsShared == droppedColumns

\* const droppedColumns: string[] = []  (line 75)
newDroppedColumns == <<>>

\* one of the two credentials is taken for enough
isConfiguredEither(e) == e.externalUrl \/ e.externalKey

\* !(!externalUrl || !externalKey)  (line 31)
isConfigured(e) == e.externalUrl /\ e.externalKey

\* !(!lovableUrl || !lovableKey)  (line 145)
isPrimaryConfigured(e) == e.lovableUrl /\ e.lovableKey

Serve(r, e) ==
    LET configured == isConfigured(e)
        running == r.method # "OPTIONS" /\ configured
        isUpsert == r.operation \in {"INSERT", "UPDATE"}
        isSync == r.operation = "SYNC_ALL"
        primaryConfigured == isPrimaryConfigured(e)
    IN  /\ UNCHANGED otherVars
        /\ pc = "idle"
        /\ served < MaxRequests
        /\ served' = served + 1
        /\ prevSame' = IF r = req THEN response ELSE NoResponse
        /\ req' = r
        /\ dbBefore' = db
        /\ schemaBefore' = schema
        /\ ops' = <<>>
        /\ batchDrops' = <<>>
        /\ cfg' = IF r.method = "OPTIONS" THEN Unread
                  ELSE [Unread EXCEPT
                          !.externalUrl = Seen(e.externalUrl),
                          !.externalKey = Seen(e.externalKey),
                          !.lovableUrl = IF running /\ isSync
                                         THEN Seen(e.lovableUrl) ELSE @,
                          !.lovableKey = IF running /\ isSync
                                         THEN Seen(e.lovableKey) ELSE @]
        /\ pc' = IF ~running THEN "idle"
                 ELSE IF isUpsert THEN "upsert"
                 ELSE IF r.operation = "DELETE" THEN "delete"
                 ELSE IF isSync /\ primaryConfigured THEN "select"
                 ELSE "idle"
        /\ response' =
              IF r.method = "OPTIONS" THEN PreflightResponse
              ELSE IF ~configured THEN CredentialsResponse(credentialsText)
              ELSE IF isUpsert \/ r.operation = "DELETE" THEN NoResponse
              ELSE IF isSync
              THEN IF primaryConfigured THEN NoResponse
                   ELSE CatchResponse(NewError(<<primaryCredentialsText>>))
              ELSE CatchResponse(
                       NewError(<<"Unknown operation: ", r.operation>>))
        /\ dataToSend' = IF running /\ isUpsert THEN r.data ELSE JsonNull
        /\ droppedColumns' = newDroppedColumns
        /\ attempt' = 0
        /\ allData' = <<>>
        /\ i' = 0
        /\ droppedSet' = <<>>
        /\ UNCHANGED <<handlerCopy, db, schema>>

\* mutant of isDroppable: the tests of the code and of the match are
\* missing, any error with a message is taken for a missing column
isDroppableAnyMessage(error, dropped) ==
    /\ error.message # <<>>
    /\ matchMissingColumn(error.message) \notin Range(dropped)

\* a test without the includes() of line 93: a column named again is
\* dropped again
isDroppableAgain(error, dropped) ==
    /\ error.code = "PGRST204"
    /\ error.message # <<>>
    /\ matchMissingColumn(error.message) # ""

\* the test of lines 89-93: the error is a missing-column error naming a
\* column that this call has not dropped yet
isDroppable(error, dropped) ==
    /\ error.code = "PGRST204"
    /\ error.message # <<>>
    /\ matchMissingColumn(error.message) # ""
    /\ matchMissingColumn(error.message) \notin Range(dropped)

\* a loop that steps over every other slice
nextOffsetSkips(offset) == offset + 2 * batchSize

\* i += batchSize  (line 185)
nextOffset(offset) == offset + batchSize

(***************************************************************************)
(* upsertWithAutoDrop (lines 73-110): one iteration of its loop, and what  *)
(* its caller does when it returns or throws (lines 118-124, 187-203).     *)
(***************************************************************************)
afterUpsert(reply) ==
    /\ UNCHANGED otherVars
    /\ pc = "upsert"
    /\ handlerCopy = 1
    /\    LET missingColumn == matchMissingColumn(reply.message)
              dropped == Append(droppedColumns, missingColumn)
              nextSet == addAll(droppedSet, droppedColumns)
              nextI == nextOffset(i)
          IN  /\ ops' = Append(ops, Op(externalSupabase, "upsert", req.table,
                                       dataToSend, PayloadColumns(dataToSend),
                                       reply))
              /\ db' = dbAfterUpsert(externalSupabase, req.table, dataToSend,
                                       reply)
              /\ IF reply = NoError
                 THEN \* return { upserted, droppedColumns }
                      /\ batchDrops' = Append(batchDrops, droppedColumns)
                      /\ IF req.operation = "SYNC_ALL"
                         THEN /\ droppedSet' = nextSet
                              /\ i' = nextI
                              /\ IF nextI < Len(allData)
                                 THEN /\ dataToSend' = batchOf(allData, nextI)
                                      /\ droppedColumns' = newDroppedColumns
                                      /\ attempt' = 0
                                      /\ UNCHANGED <<pc, response>>
                                 ELSE /\ pc' = "idle"
                                      /\ response' = SuccessResponse(
                                            [synced |-> Len(allData),
                                             table |-> req.table,
                                             droppedColumns |-> nextSet])
                                      /\ UNCHANGED <<dataToSend,
                                                     droppedColumns, attempt>>
                         ELSE /\ pc' = "idle"
                              /\ response' = SuccessResponse(
                                    [upserted |-> JsonNull,
                                     droppedColumns |-> droppedColumns])
                              /\ UNCHANGED <<dataToSend, droppedColumns,
                                             attempt, i, droppedSet>>
                 ELSE IF isDroppable(reply, droppedColumns)
                 THEN \* drop the column and continue
                      /\ droppedColumns' = dropped
                      /\ dataToSend' =
                            removeColumnFromData(dataToSend, missingColumn)
                      /\ attempt' = attempt + 1
                      /\ IF attempt + 1 < maxAttempts
                         THEN UNCHANGED <<pc, response>>
                         ELSE /\ pc' = "idle"
                              /\ response' =
                                    CatchResponse(ExhaustedError(dropped))
                      /\ UNCHANGED <<i, droppedSet, batchDrops>>
                 ELSE \* throw error
                      /\ pc' = "idle"
                      /\ response' = CatchResponse(reply)
                      /\ UNCHANGED <<dataToSend, droppedColumns, attempt, i,
                                     droppedSet, batchDrops>>
    /\ UNCHANGED <<handlerCopy, schema, served, req, cfg, allData,
                   dbBefore, schemaBefore, prevSame>>

upsertWithAutoDrop ==
    \E reply \in upsertReplies(req.table, schema[externalSupabase][req.table],
                              dataToSend) :
       afterUpsert(reply)

\* a PGRST204 reply whose message does not have the wording of line 90
UnnamedColumnError(table) ==
    [isError |-> FALSE, code |-> "PGRST204",
     message |-> <<"Column not found in the schema cache of '", table, "'">>]

\* PGRST204 replies that lines 90-93 cannot act on: the message names no
\* column, or names a column this call has already dropped
staleReplies(table, dropped) ==
    {UnnamedColumnError(table)}
    \cup {MissingColumnError(c, table) : c \in Range(dropped)}

\* the upsert of lines 78-80 answered by such a reply
upsertRefusedAgain ==
    \E reply \in staleReplies(req.table, droppedColumns) : afterUpsert(reply)

(***************************************************************************)
(* case "DELETE" (lines 127-137).                                          *)
(***************************************************************************)
Delete ==
    /\ UNCHANGED otherVars
    /\ pc = "delete"
    /\ handlerCopy = 1
    /\ \E reply \in deleteReplies(req.table) :
          /\ ops' = Append(ops, Op(externalSupabase, "delete", req.table,
                                   JsonNull, {"id"}, reply))
          /\ db' = dbAfterDelete(externalSupabase, req.table, req.id, reply)
          /\ response' =
                IF reply = NoError
                THEN SuccessResponse([deleted |-> TRUE, id |-> req.id])
                ELSE CatchResponse(reply)
    /\ pc' = "idle"
    /\ UNCHANGED <<handlerCopy, schema, served, req, cfg,
                   dataToSend, droppedColumns, attempt, allData, i,
                   droppedSet, batchDrops, dbBefore,
                   schemaBefore, prevSame>>

(***************************************************************************)
(* case "SYNC_ALL", the read of the primary (lines 149-186, 196-203).      *)
(***************************************************************************)
SyncAllSelect ==
    /\ UNCHANGED otherVars
    /\ pc = "select"
    /\ handlerCopy = 1
    /\ \E reply \in selectReplies(req.table) :
          LET columns == selectColumns(req.table)
              fetched == select(db[lovableSupabase][req.table], columns)
          IN  /\ ops' = Append(ops, Op(lovableSupabase, "select", req.table,
                                       JsonNull, Range(columns), reply))
              /\ IF reply # NoError
                 THEN \* throw fetchError
                      /\ pc' = "idle"
                      /\ response' = CatchResponse(reply)
                      /\ UNCHANGED <<allData, dataToSend>>
                 ELSE /\ allData' = fetched
                      /\ IF Len(fetched) > 0
                         THEN /\ pc' = "upsert"
                              /\ dataToSend' = batchOf(fetched, 0)
                              /\ UNCHANGED response
                         ELSE /\ pc' = "idle"
                              /\ response' = SuccessResponse(
                                    [synced |-> 0, table |-> req.table,
                                     droppedColumns |-> <<>>])
                              /\ UNCHANGED dataToSend
    /\ UNCHANGED <<handlerCopy, db, schema, served, req, cfg,
                   droppedColumns, attempt, i, droppedSet, batchDrops,
                   dbBefore, schemaBefore, prevSame>>

(***************************************************************************)
(* The second copy of the handler (lines 232-365): no auto-drop.           *)
(***************************************************************************)
\* case 'INSERT', 'UPDATE' (lines 262-275)
legacyUpsert ==
    /\ UNCHANGED otherVars
    /\ pc = "upsert"
    /\ handlerCopy = 2
    /\ req.operation # "SYNC_ALL"
    /\ \E reply \in upsertReplies(req.table, schema[externalSupabase][req.table],
                             dataToSend) :
          /\ ops' = Append(ops, Op(externalSupabase, "upsert", req.table,
                                   dataToSend, PayloadColumns(dataToSend),
                                   reply))
          /\ db' = dbAfterUpsert(externalSupabase, req.table, dataToSend,
                                   reply)
          /\ response' = IF reply = NoError THEN SuccessResponse(JsonNull)
                         ELSE CatchResponse(reply)
    /\ pc' = "idle"
    /\ UNCHANGED <<handlerCopy, schema, served, req, cfg,
                   dataToSend, droppedColumns, attempt, allData, i,
                   droppedSet, batchDrops, dbBefore,
                   schemaBefore, prevSame>>

\* case 'DELETE' (lines 277-289): result stays undefined
legacyDelete ==
    /\ UNCHANGED otherVars
    /\ pc = "delete"
    /\ handlerCopy = 2
    /\ \E reply \in deleteReplies(req.table) :
          /\ ops' = Append(ops, Op(externalSupabase, "delete", req.table,
                                   JsonNull, {"id"}, reply))
          /\ db' = dbAfterDelete(externalSupabase, req.table, req.id, reply)
          /\ response' =
                IF reply = NoError
                THEN [status |-> 200, body |-> [success |-> TRUE]]
                ELSE CatchResponse(reply)
    /\ pc' = "idle"
    /\ UNCHANGED <<handlerCopy, schema, served, req, cfg,
                   dataToSend, droppedColumns, attempt, allData, i,
                   droppedSet, batchDrops, dbBefore,
                   schemaBefore, prevSame>>

\* case 'SYNC_ALL', the read of the primary (lines 300-331, 344)
legacySelect ==
    /\ UNCHANGED otherVars
    /\ pc = "select"
    /\ handlerCopy = 2
    /\ \E reply \in selectReplies(req.table) :
          LET columns == selectColumns(req.table)
              fetched == select(db[lovableSupabase][req.table], columns)
          IN  /\ ops' = Append(ops, Op(lovableSupabase, "select", req.table,
                                       JsonNull, Range(columns), reply))
              /\ IF reply # NoError
                 THEN /\ pc' = "idle"
                      /\ response' = CatchResponse(reply)
                      /\ UNCHANGED <<allData, dataToSend>>
                 ELSE /\ allData' = fetched
                      /\ IF Len(fetched) > 0
                         THEN /\ pc' = "upsert"
                              /\ dataToSend' = batchOf(fetched, 0)
                              /\ UNCHANGED response
                         ELSE /\ pc' = "idle"
                              /\ response' = SuccessResponse(
                                    [synced |-> 0, table |-> req.table])
                              /\ UNCHANGED dataToSend
    /\ UNCHANGED <<handlerCopy, db, schema, served, req, cfg,
                   droppedColumns, attempt, i, droppedSet, batchDrops,
                   dbBefore, schemaBefore, prevSame>>

\* case 'SYNC_ALL', one batch (lines 330-345)
legacyBatch ==
    /\ UNCHANGED otherVars
    /\ pc = "upsert"
    /\ handlerCopy = 2
    /\ req.operation = "SYNC_ALL"
    /\ \E reply \in upsertReplies(req.table, schema[externalSupabase][req.table],
                             dataToSend) :
          LET nextI == nextOffset(i)
          IN  /\ ops' = Append(ops, Op(externalSupabase, "upsert", req.table,
                                       dataToSend, PayloadColumns(dataToSend),
                                       reply))
              /\ db' = dbAfterUpsert(externalSupabase, req.table, dataToSend,
                                       reply)
              /\ IF reply # NoError
                 THEN \* throw syncError
                      /\ pc' = "idle"
                      /\ response' = CatchResponse(reply)
                      /\ UNCHANGED <<i, dataToSend>>
                 ELSE /\ i' = nextI
                      /\ IF nextI < Len(allData)
                         THEN /\ dataToSend' = batchOf(allData, nextI)
                              /\ UNCHANGED <<pc, response>>
                         ELSE /\ pc' = "idle"
                              /\ response' = SuccessResponse(
                                    [synced |-> Len(allData),
                                     table |-> req.table])
                              /\ UNCHANGED dataToSend
    /\ UNCHANGED <<handlerCopy, schema, served, req, cfg,
                   droppedColumns, attempt, allData, droppedSet, batchDrops,
                   dbBefore, schemaBefore, prevSame>>

(***************************************************************************)
(* Initial states and the requests of each scenario.                       *)
(***************************************************************************)
(***************************************************************************)
(* The secondary is provisioned on its own and its schema may lag behind   *)
(* the primary's (lines 49-50, 151-152): a column of the primary's table   *)
(* that the secondary's table lacks is added to it, NULL in every row.     *)
(* Only a change during a request is a step: one between requests gives a  *)
(* state the next request starts from, as another initial schema does.     *)
(***************************************************************************)
AlterSecondary ==
    /\ UNCHANGED otherVars
    /\ pc # "idle"
    /\ \E t \in Tables :
          \E c \in schema["primary"][t] \ schema["secondary"][t] :
             /\ schema' = [schema EXCEPT !["secondary"][t] = @ \cup {c}]
             /\ db' = [db EXCEPT !["secondary"][t] =
                          [x \in DOMAIN @ |->
                              [col \in schema["secondary"][t] \cup {c} |->
                                  IF col = c THEN Null ELSE @[x][col]]]]
    /\ UNCHANGED <<handlerCopy, served, pc, req, cfg, dataToSend,
                   droppedColumns, attempt, allData, i, droppedSet, response,
                   ops, batchDrops, dbBefore, schemaBefore, prevSame>>

(***************************************************************************)
(* The client helper (src/lib/syncToExternal.ts) and the admin editing     *)
(* surfaces that call it.  A surface edits one row of its table.           *)
(***************************************************************************)
Absent == [present |-> FALSE]
Row(v) == [present |-> TRUE, id |-> "r1", v |-> v]

InitSurface(surfaces, rows) ==
    /\ surface \in surfaces
    /\ uiPc = "idle"
    /\ editing = FALSE
    /\ saving = FALSE
    /\ dialogOpen = FALSE
    /\ deleteDialogOpen = FALSE
    /\ prow \in rows
    /\ srow = prow
    /\ net = {}
    /\ sent = <<>>
    /\ commits = <<>>
    /\ returned = <<>>
    /\ toast = "none"

\* the surfaces, by table: whether their handlers call the helpers, and
\* whether they await the call
\*   courses (CoursesManagement.tsx 149, 164, 196), enrollments
\*   (EnrollmentsManagement.tsx 122, 151, 179): awaited;
\*   instructors (InstructorsManagement.tsx 136, 151, 183), results
\*   (ResultsManagement.tsx 164, 179, 207), attendance: not awaited;
\*   students (StudentsManagement.tsx 133-174), departments: no call
Surfaces == {"students", "courses", "departments", "instructors",
             "enrollments", "attendance", "results"}

replicates(t) ==
    t \in {"courses", "enrollments", "instructors", "results", "attendance"}

awaitsSync(t) == t \in {"courses", "enrollments"}

\* the payloads of lines 34-44 of syncToExternal.ts
syncInsert(table, data) ==
    [operation |-> "INSERT", table |-> table, data |-> data]

syncUpdate(table, data) ==
    [operation |-> "UPDATE", table |-> table, data |-> data]

\* a helper that passes the id in the place of the row
syncDeleteAsData(table, id) ==
    [operation |-> "DELETE", table |-> table, data |-> id]

syncDelete(table, id) ==
    [operation |-> "DELETE", table |-> table, id |-> id]

syncAllRecords(table) == [operation |-> "SYNC_ALL", table |-> table]

\* how supabase.functions.invoke can end: data, { error }, or an exception
InvokeOutcomes == {"data", "error", "exception"}

\* a helper without its try and catch: an exception of invoke escapes
syncToExternalRethrows(outcome) ==
    IF outcome = "data" THEN [threw |-> FALSE, value |-> TRUE]
    ELSE IF outcome = "error" THEN [threw |-> FALSE, value |-> FALSE]
    ELSE [threw |-> TRUE, value |-> FALSE]

\* syncToExternal (lines 12-31): the promise's outcome for each of them
syncToExternal(outcome) ==
    IF outcome = "data" THEN [threw |-> FALSE, value |-> TRUE]
    ELSE [threw |-> FALSE, value |-> FALSE]

\* the gateway's effect on the row when it serves the payload without error
applied(payload, row, source) ==
    IF payload.operation \in {"INSERT", "UPDATE"}
    THEN Row(payload.data.v)
    ELSE IF payload.operation = "DELETE"
    THEN (IF row.present /\ row.id = payload.id THEN Absent ELSE row)
    ELSE IF source.present THEN source ELSE row

\* an invocation that stays in flight after it has returned
completedKept(flying, m) == flying

\* an invocation that has returned is no longer in flight
completed(flying, m) == flying \ {m}

\* openCreateDialog, openEditDialog, openDeleteDialog (CoursesManagement.tsx
\* lines 90-113): the dialogs are modal, the row is listed while it exists
openCreateDialog ==
    /\ ~dialogOpen /\ ~deleteDialogOpen
    /\ ~prow.present
    /\ editing' = FALSE
    /\ dialogOpen' = TRUE
    /\ UNCHANGED <<surface, uiPc, saving, deleteDialogOpen, prow, srow, net,
                   sent, commits, returned, toast>>
    /\ UNCHANGED besideSurface

openEditDialog ==
    /\ ~dialogOpen /\ ~deleteDialogOpen
    /\ prow.present
    /\ editing' = TRUE
    /\ dialogOpen' = TRUE
    /\ UNCHANGED <<surface, uiPc, saving, deleteDialogOpen, prow, srow, net,
                   sent, commits, returned, toast>>
    /\ UNCHANGED besideSurface

openDeleteDialog ==
    /\ ~dialogOpen /\ ~deleteDialogOpen
    /\ prow.present
    /\ deleteDialogOpen' = TRUE
    /\ UNCHANGED <<surface, uiPc, editing, saving, dialogOpen, prow, srow,
                   net, sent, commits, returned, toast>>
    /\ UNCHANGED besideSurface

\* the Cancel buttons and onOpenChange (lines 251, 357, 367, 376)
cancelDialog ==
    /\ dialogOpen
    /\ dialogOpen' = FALSE
    /\ UNCHANGED <<surface, uiPc, editing, saving, deleteDialogOpen, prow,
                   srow, net, sent, commits, returned, toast>>
    /\ UNCHANGED besideSurface

cancelDeleteDialog ==
    /\ deleteDialogOpen
    /\ deleteDialogOpen' = FALSE
    /\ UNCHANGED <<surface, uiPc, editing, saving, dialogOpen, prow, srow,
                   net, sent, commits, returned, toast>>
    /\ UNCHANGED besideSurface

\* handleSubmit up to its await on the primary (lines 115-143): the button
\* is disabled while saving
handleSubmit ==
    /\ dialogOpen /\ ~saving
    /\ uiPc = "idle"
    /\ Len(commits) < MaxEdits
    /\ \E filled \in BOOLEAN :
          IF ~filled
          THEN \* a required field is empty: toast and return (116-123)
               /\ toast' = "invalid"
               /\ UNCHANGED <<saving, uiPc>>
          ELSE /\ saving' = TRUE
               /\ uiPc' = IF editing THEN "update" ELSE "insert"
               /\ UNCHANGED toast
    /\ UNCHANGED <<surface, editing, dialogOpen, deleteDialogOpen, prow, srow,
                   net, sent, commits, returned>>
    /\ UNCHANGED besideSurface

\* handleDelete up to its await on the primary (lines 183-191)
handleDelete ==
    /\ deleteDialogOpen /\ ~saving
    /\ uiPc = "idle"
    /\ Len(commits) < MaxEdits
    /\ saving' = TRUE
    /\ uiPc' = "delete"
    /\ UNCHANGED <<surface, editing, dialogOpen, deleteDialogOpen, prow, srow,
                   net, sent, commits, returned, toast>>
    /\ UNCHANGED besideSurface

\* the call of a helper by a handler: the request leaves, and the handler
\* goes on at once or waits for the promise
dispatch(payload, waitingAt) ==
    IF replicates(surface)
    THEN /\ sent' = Append(sent, payload)
         /\ net' = net \cup {[n |-> Len(sent) + 1, payload |-> payload]}
         /\ uiPc' = IF awaitsSync(surface) THEN waitingAt ELSE "idle"
    ELSE /\ uiPc' = "idle"
         /\ UNCHANGED <<sent, net>>

\* a handler whose error check is missing: it goes on after a failed write
throwErrorNever(error) == FALSE

\* if (error) throw error; (CoursesManagement.tsx lines 145, 160, 193)
throwError(error) == error

\* the rest of handleSubmit (lines 137-181): the primary has answered, with
\* { data, error: null } when it wrote the row, else with { data: null, error }
submitWritten ==
    /\ uiPc \in {"insert", "update"}
    /\ \E ok \in BOOLEAN :
          LET error == ~ok \/ ~(uiPc = "update" <=> prow.present)
              data == [id |-> "r1", v |-> Len(commits) + 1]
              payload == IF uiPc = "update" THEN syncUpdate(surface, data)
                         ELSE syncInsert(surface, data)
              waits == ~error /\ replicates(surface) /\ awaitsSync(surface)
          IN  /\ prow' = IF error THEN prow ELSE Row(data.v)
              /\ commits' = IF error THEN commits
                            ELSE Append(commits, [change |-> uiPc,
                                                  id |-> "r1", v |-> data.v])
              /\ IF throwError(error)
                 THEN \* catch, finally
                      /\ uiPc' = "idle"
                      /\ saving' = FALSE
                      /\ toast' = "error"
                      /\ UNCHANGED <<dialogOpen, sent, net>>
                 ELSE /\ IF ~error \* if (data)
                         THEN dispatch(payload, "submitSync")
                         ELSE uiPc' = "idle" /\ UNCHANGED <<sent, net>>
                      /\ IF waits
                         THEN UNCHANGED <<dialogOpen, saving, toast>>
                         ELSE /\ dialogOpen' = FALSE
                              /\ saving' = FALSE
                              /\ toast' = "success"
    /\ UNCHANGED <<surface, editing, deleteDialogOpen, srow, returned>>
    /\ UNCHANGED besideSurface

\* the rest of handleDelete (lines 188-210)
deleteWritten ==
    /\ uiPc = "delete"
    /\ \E ok \in BOOLEAN :
          LET error == ~ok
              payload == syncDelete(surface, "r1")
              waits == replicates(surface) /\ awaitsSync(surface)
          IN  /\ prow' = IF error THEN prow ELSE Absent
              /\ commits' = IF error THEN commits
                            ELSE Append(commits,
                                        [change |-> "delete", id |-> "r1"])
              /\ IF throwError(error)
                 THEN /\ uiPc' = "idle"
                      /\ saving' = FALSE
                      /\ toast' = "error"
                      /\ UNCHANGED <<deleteDialogOpen, sent, net>>
                 ELSE /\ dispatch(payload, "deleteSync")
                      /\ IF waits
                         THEN UNCHANGED <<deleteDialogOpen, saving, toast>>
                         ELSE /\ deleteDialogOpen' = FALSE
                              /\ saving' = FALSE
                              /\ toast' = "success"
    /\ UNCHANGED <<surface, editing, dialogOpen, srow, returned>>
    /\ UNCHANGED besideSurface

\* supabase.functions.invoke of one request in flight ends (syncToExternal.ts
\* lines 16-30); a handler that awaits the helper goes on (lines 152-170,
\* 198-200), to its catch block when the promise rejects
invoked ==
    /\ \E m \in net, outcome \in InvokeOutcomes :
          LET r == syncToExternal(outcome)
              awaited == uiPc \in {"submitSync", "deleteSync"}
          IN  /\ net' = completed(net, m)
              /\ srow' = IF outcome = "data"
                         THEN applied(m.payload, srow, prow) ELSE srow
              /\ returned' = Append(returned,
                                    [n |-> m.n, outcome |-> outcome,
                                     threw |-> r.threw, value |-> r.value])
              /\ uiPc' = IF awaited THEN "idle" ELSE uiPc
              /\ saving' = IF awaited THEN FALSE ELSE saving
              /\ dialogOpen' = IF uiPc = "submitSync" /\ ~r.threw
                               THEN FALSE ELSE dialogOpen
              /\ deleteDialogOpen' = IF uiPc = "deleteSync" /\ ~r.threw
                                     THEN FALSE ELSE deleteDialogOpen
              /\ toast' = IF ~awaited THEN toast
                         ELSE IF r.threw THEN "error" ELSE "success"
    /\ UNCHANGED <<surface, editing, prow, sent, commits>>
    /\ UNCHANGED besideSurface

\* the secondary's tables lack the columns `lack` of the primary's and
\* have the columns `extra` beyond them
SchemaOptions ==
    {[lack |-> {}, extra |-> {}],
     [lack |-> {}, extra |-> {ColumnPool[1]}],
     [lack |-> {}, extra |-> {ColumnPool[2]}],
     [lack |-> {"name"}, extra |-> {}]}

InitStores(n, kp, opt, present) ==
    /\ schema =
          [primary |->
              [t \in Tables |-> PrimaryColumns(t) \cup GhostColumns(kp)],
           secondary |->
              [t \in Tables |-> (PrimaryColumns(t) \ opt.lack) \cup opt.extra]]
    /\ db =
          [primary |->
              [t \in Tables |->
                  [k \in 1..n |-> MkRow(k, 1, schema["primary"][t])]],
           secondary |->
              [t \in Tables |->
                  [x \in present |->
                      MkRow(x, MaxValue, schema["secondary"][t])]]]

InitGateway(count) ==
    /\ handlerCopy \in {1, 2}
    /\ served = count
    /\ pc = "idle"
    /\ req = NoRequest
    /\ cfg = Unread
    /\ dataToSend = JsonNull
    /\ droppedColumns = <<>>
    /\ attempt = 0
    /\ allData = <<>>
    /\ i = 0
    /\ droppedSet = <<>>
    /\ response = NoResponse
    /\ ops = <<>>
    /\ batchDrops = <<>>
    /\ dbBefore = db
    /\ schemaBefore = schema
    /\ prevSame = NoResponse

(***************************************************************************)
(* The router: AppRoutes and ProtectedRoute of part_000.  The routes are   *)
(* checked against every value useAuth() can hand them: any combination    *)
(* of loading, session and role (Index.tsx lines 48-51).                   *)
(***************************************************************************)
NoRole == "null"

AuthStates ==
    [loading : BOOLEAN, session : BOOLEAN, role : {NoRole, "admin", "student"}]

\* const isAuthenticated = !!session
isAuthenticated(a) == a.session

\* the allowedRoles prop of each route; /dashboard has none
NoRoles == [given |-> FALSE, roles |-> {}]
Roles(rs) == [given |-> TRUE, roles |-> rs]

AdminPaths == {"/students", "/reports"}
StudentPaths == {"/my-courses", "/my-results"}
Paths == {"/login", "/dashboard"} \cup AdminPaths \cup StudentPaths

RouteRoles(p) ==
    IF p \in AdminPaths THEN Roles({"admin"})
    ELSE IF p \in StudentPaths THEN Roles({"student"})
    ELSE NoRoles

\* copy 1 denies a missing role, copy 2 tests the role only when there is one
ProtectedRoute(copy, a, allowedRoles) ==
    IF a.loading THEN "Loader2"
    ELSE IF copy = 1
    THEN IF ~a.session THEN "Navigate /login"
         ELSE IF /\ allowedRoles.given
                 /\ (a.role = NoRole \/ a.role \notin allowedRoles.roles)
              THEN "Navigate /dashboard"
              ELSE "children"
    ELSE IF ~isAuthenticated(a) THEN "Navigate /login"
         ELSE IF /\ allowedRoles.given
                 /\ a.role # NoRole
                 /\ a.role \notin allowedRoles.roles
              THEN "Navigate /dashboard"
              ELSE "children"

AppRoutes(copy, a, p) ==
    IF a.loading THEN "Loader2"
    ELSE IF p = "/login"
    THEN IF isAuthenticated(a) THEN "Navigate /dashboard" ELSE "LoginForm"
    ELSE ProtectedRoute(copy, a, RouteRoles(p))

InitRoute(copies) ==
    /\ routeCopy \in copies
    /\ auth = [loading |-> TRUE, session |-> FALSE, role |-> NoRole]
    /\ path = "/login"
    /\ rendered = AppRoutes(routeCopy, auth, path)

\* the AuthContext changes state and the routes render again
onAuthStateChange ==
    /\ \E a \in AuthStates \ {auth} :
          /\ auth' = a
          /\ rendered' = AppRoutes(routeCopy, a, path)
    /\ UNCHANGED <<routeCopy, path>>
    /\ UNCHANGED besideRoute

\* the user follows a link or types a location
navigate ==
    /\ \E p \in Paths \ {path} :
          /\ path' = p
          /\ rendered' = AppRoutes(routeCopy, auth, p)
    /\ UNCHANGED <<routeCopy, auth>>
    /\ UNCHANGED besideRoute

\* <Navigate to=... replace />
followNavigate ==
    /\ rendered \in {"Navigate /login", "Navigate /dashboard"}
    /\ path' = IF rendered = "Navigate /login" THEN "/login" ELSE "/dashboard"
    /\ rendered' = AppRoutes(routeCopy, auth, path')
    /\ UNCHANGED <<routeCopy, auth>>
    /\ UNCHANGED besideRoute

(***************************************************************************)
(* AuthProvider (src/pages/Index.tsx lines 47-157).  The state is the four *)
(* useState cells; the supabase auth client calls the listener within the  *)
(* call that changes its session, which is why the listener defers its     *)
(* role fetch with setTimeout (line 92).                                   *)
(***************************************************************************)
NoUser == "none"
AuthUsers == {"admin-id", "student-id"}

\* the table user_roles of the primary
user_roles == [u \in AuthUsers |-> IF u = "admin-id" THEN "admin" ELSE "student"]

\* fetchUserRole (lines 53-66): null on an error of the query
fetchUserRole(userId, ok) == IF ok THEN user_roles[userId] ELSE NoRole

SignInIdle == [at |-> "idle"]

InitAuth(clients) ==
    /\ authClient \in clients
    /\ authSession = NoUser
    /\ authUser = NoUser
    /\ authRole = NoRole
    /\ authLoading = TRUE
    /\ getSessionPc = "pending"
    /\ signInPc = SignInIdle
    /\ signOutPc = FALSE
    /\ timers = {}
    /\ fetches = {}
    /\ authCalls = 0

\* the listener with a session (lines 91-95): the fetch is deferred
deferredFetch(pending, n, u) == pending \cup {[n |-> n, user |-> u]}

\* getSession().then(...) of the effect (lines 70-82)
getSessionResolved ==
    /\ getSessionPc = "pending"
    /\ getSessionPc' = "done"
    /\ authSession' = authClient
    /\ authUser' = authClient
    /\ IF authClient # NoUser
       THEN /\ fetches' = fetches \cup {[n |-> 0, user |-> authClient,
                                         then |-> "getSession"]}
            /\ UNCHANGED authLoading
       ELSE /\ authLoading' = FALSE
            /\ UNCHANGED fetches
    /\ UNCHANGED <<authClient, authRole, signInPc, signOutPc, timers,
                   authCalls>>
    /\ UNCHANGED besideAuth

\* signIn up to its await of signInWithPassword (lines 104-105)
signIn ==
    /\ signInPc = SignInIdle
    /\ authCalls < MaxAuthCalls
    /\ \E u \in AuthUsers : signInPc' = [at |-> "password", user |-> u]
    /\ authCalls' = authCalls + 1
    /\ UNCHANGED <<authClient, authSession, authUser, authRole, authLoading,
                   getSessionPc, signOutPc, timers, fetches>>
    /\ UNCHANGED besideAuth

\* signInWithPassword resolves (lines 105-115): on success the client has
\* the session and has called the listener (lines 87-95), and signIn sets
\* the session and the user and starts its own fetch of the role
signedIn ==
    /\ signInPc.at = "password"
    /\ \E ok \in BOOLEAN :
          IF ok
          THEN /\ authClient' = signInPc.user
               /\ authSession' = signInPc.user
               /\ authUser' = signInPc.user
               /\ timers' = deferredFetch(timers, authCalls, signInPc.user)
               /\ fetches' = fetches \cup {[n |-> authCalls,
                                            user |-> signInPc.user,
                                            then |-> "signIn"]}
               /\ signInPc' = [at |-> "role", user |-> signInPc.user]
          ELSE /\ signInPc' = SignInIdle
               /\ UNCHANGED <<authClient, authSession, authUser, timers,
                              fetches>>
    /\ UNCHANGED <<authRole, authLoading, getSessionPc, signOutPc, authCalls>>
    /\ UNCHANGED besideAuth

\* signOut up to its await (lines 143-144)
signOut ==
    /\ ~signOutPc
    /\ authCalls < MaxAuthCalls
    /\ signOutPc' = TRUE
    /\ authCalls' = authCalls + 1
    /\ UNCHANGED <<authClient, authSession, authUser, authRole, authLoading,
                   getSessionPc, signInPc, timers, fetches>>
    /\ UNCHANGED besideAuth

\* auth.signOut resolves (lines 144-147): the client has dropped the
\* session and called the listener with null (lines 87-89, 96-98), and
\* signOut clears the user, the session and the role
signedOut ==
    /\ signOutPc
    /\ signOutPc' = FALSE
    /\ authClient' = NoUser
    /\ authSession' = NoUser
    /\ authUser' = NoUser
    /\ authRole' = NoRole
    /\ UNCHANGED <<authLoading, getSessionPc, signInPc, timers, fetches,
                   authCalls>>
    /\ UNCHANGED besideAuth

\* the client refreshes the token of its session and calls the listener
\* with the session (lines 86-95)
tokenRefreshed ==
    /\ authClient # NoUser
    /\ authCalls < MaxAuthCalls
    /\ authCalls' = authCalls + 1
    /\ authSession' = authClient
    /\ authUser' = authClient
    /\ timers' = deferredFetch(timers, authCalls', authClient)
    /\ UNCHANGED <<authClient, authRole, authLoading, getSessionPc, signInPc,
                   signOutPc, fetches>>
    /\ UNCHANGED besideAuth

\* a callback of setTimeout runs (lines 92-94): fetchUserRole is called
timerFires ==
    /\ \E t \in timers :
          /\ timers' = timers \ {t}
          /\ fetches' = fetches \cup {[n |-> t.n, user |-> t.user,
                                       then |-> "listener"]}
    /\ UNCHANGED <<authClient, authSession, authUser, authRole, authLoading,
                   getSessionPc, signInPc, signOutPc, authCalls>>
    /\ UNCHANGED besideAuth

\* a call of fetchUserRole resolves, and its continuation runs: setRole and
\* setLoading (lines 76-79), setRole (line 93), or the rest of signIn
\* (lines 115-117)
roleFetched ==
    /\ \E f \in fetches, ok \in BOOLEAN :
          /\ fetches' = fetches \ {f}
          /\ authRole' = fetchUserRole(f.user, ok)
          /\ authLoading' = IF f.then = "getSession" THEN FALSE
                            ELSE authLoading
          /\ signInPc' = IF f.then = "signIn" THEN SignInIdle ELSE signInPc
    /\ UNCHANGED <<authClient, authSession, authUser, getSessionPc,
                   signOutPc, timers, authCalls>>
    /\ UNCHANGED besideAuth

(***************************************************************************)
(* create-demo-users.  Ids the database would generate are modelled by     *)
(* the row's natural key: an auth user by its email, a course and a        *)
(* department by their code, a student by its student code.  The select    *)
(* of courses, which has no order, returns them in insertion order.        *)
(***************************************************************************)
DEMO_ADMIN == [email |-> "admin@sims.com", role |-> "admin"]

DEMO_STUDENT ==
    [email |-> "student@sims.com", role |-> "student",
     studentCode |-> "STU-2024-001"]

ADDITIONAL_STUDENTS ==
    SubSeq(<<[studentCode |-> "STU-2024-002"], [studentCode |-> "STU-2024-003"],
             [studentCode |-> "STU-2024-004"], [studentCode |-> "STU-2024-005"],
             [studentCode |-> "STU-2024-006"], [studentCode |-> "STU-2024-007"],
             [studentCode |-> "STU-2024-008"]>>, 1, MaxAdditional)

NoId == "null"

EmptyDb ==
    [authUsers |-> {}, user_roles |-> {}, departments |-> <<>>,
     courses |-> <<>>, students |-> {}, enrollments |-> {},
     attendance |-> {}, results |-> {}]

getUserIdByEmail(d, email) ==
    IF email \in d.authUsers THEN email ELSE NoId

upsertRole(d, userId, role) ==
    IF \E r \in d.user_roles : r.user_id = userId
    THEN [d EXCEPT !.user_roles =
             {IF r.user_id = userId THEN [r EXCEPT !.role = role] ELSE r :
                 r \in @}]
    ELSE [d EXCEPT !.user_roles = @ \cup {[user_id |-> userId, role |-> role]}]

\* the database after the call; the id returned is the email either way
createOrUpdateAuthUser(d, u) ==
    LET existingId == getUserIdByEmail(d, u.email)
    IN  IF existingId # NoId
        THEN upsertRole(d, existingId, u.role)
        ELSE upsertRole([d EXCEPT !.authUsers = @ \cup {u.email}],
                        u.email, u.role)

getOrCreateDepartment(d) ==
    IF Len(d.departments) > 0
    THEN [db |-> d, id |-> d.departments[1]]
    ELSE [db |-> [d EXCEPT !.departments = Append(@, "CS")], id |-> "CS"]

getOrCreateCourses(d, department) ==
    IF Len(d.courses) > 0
    THEN [db |-> d,
          ids |-> SubSeq(d.courses, 1, IF Len(d.courses) < 3
                                       THEN Len(d.courses) ELSE 3)]
    ELSE LET coursesToCreate == <<"CS101", "CS201", "CS301">>
         IN  [db |-> [d EXCEPT !.courses = @ \o coursesToCreate],
              ids |-> coursesToCreate]

ensureStudentRecord(d, studentUserId, meta) ==
    IF studentUserId # NoId
    THEN IF \E r \in d.students : r.user_id = studentUserId
         THEN LET existing ==
                      CHOOSE r \in d.students : r.user_id = studentUserId
              IN  [db |-> [d EXCEPT !.students =
                              (@ \ {existing}) \cup
                              {[existing EXCEPT
                                   !.student_id = meta.studentCode]}],
                   id |-> existing.id]
         ELSE [db |-> [d EXCEPT !.students = @ \cup
                          {[id |-> meta.studentCode,
                            user_id |-> studentUserId,
                            student_id |-> meta.studentCode]}],
               id |-> meta.studentCode]
    ELSE IF \E r \in d.students : r.student_id = meta.studentCode
         THEN [db |-> d,
               id |-> (CHOOSE r \in d.students :
                          r.student_id = meta.studentCode).id]
         ELSE [db |-> [d EXCEPT !.students = @ \cup
                          {[id |-> meta.studentCode,
                            user_id |-> NoId,
                            student_id |-> meta.studentCode]}],
               id |-> meta.studentCode]

ensureEnrollment(d, studentId, courseId) ==
    IF \E r \in d.enrollments :
          r.student_id = studentId /\ r.course_id = courseId
    THEN d
    ELSE [d EXCEPT !.enrollments = @ \cup
             {[student_id |-> studentId, course_id |-> courseId]}]

ensureAttendance(d, studentId, courseId, date, status) ==
    IF \E r \in d.attendance :
          r.student_id = studentId /\ r.course_id = courseId /\ r.date = date
    THEN d
    ELSE [d EXCEPT !.attendance = @ \cup
             {[student_id |-> studentId, course_id |-> courseId,
               date |-> date, status |-> status]}]

ensureResult(d, studentId, courseId, exam_type, marks_obtained, grade) ==
    IF \E r \in d.results :
          /\ r.student_id = studentId
          /\ r.course_id = courseId
          /\ r.exam_type = exam_type
    THEN d
    ELSE [d EXCEPT !.results = @ \cup
             {[student_id |-> studentId, course_id |-> courseId,
               exam_type |-> exam_type, marks_obtained |-> marks_obtained,
               grade |-> grade]}]

\* the loops of awaited calls, in order
RECURSIVE ensureEnrollments(_, _, _)
ensureEnrollments(d, studentId, ids) ==
    IF ids = <<>> THEN d
    ELSE ensureEnrollments(ensureEnrollment(d, studentId, Head(ids)),
                           studentId, Tail(ids))

RECURSIVE ensureAttendances(_, _, _, _)
ensureAttendances(d, studentId, courseId, entries) ==
    IF entries = <<>> THEN d
    ELSE ensureAttendances(
             ensureAttendance(d, studentId, courseId,
                              Head(entries)[1], Head(entries)[2]),
             studentId, courseId, Tail(entries))

RECURSIVE ensureResults(_, _, _, _)
ensureResults(d, studentId, courseId, entries) ==
    IF entries = <<>> THEN d
    ELSE ensureResults(
             ensureResult(d, studentId, courseId,
                          Head(entries)[1], Head(entries)[2], Head(entries)[3]),
             studentId, courseId, Tail(entries))

\* the main student's sample attendance per course position
MainAttendance ==
    << <<<<"2025-01-06", "present">>, <<"2025-01-07", "present">>,
         <<"2025-01-08", "late">>, <<"2025-01-09", "present">>,
         <<"2025-01-10", "absent">>, <<"2025-01-13", "present">>,
         <<"2025-01-14", "present">>, <<"2025-01-15", "present">>>>,
       <<<<"2025-01-06", "present">>, <<"2025-01-07", "present">>,
         <<"2025-01-08", "present">>, <<"2025-01-09", "absent">>,
         <<"2025-01-10", "present">>, <<"2025-01-13", "present">>>>,
       <<<<"2025-01-06", "present">>, <<"2025-01-07", "late">>,
         <<"2025-01-08", "present">>, <<"2025-01-09", "present">>,
         <<"2025-01-10", "present">>>> >>

\* and the sample results
MainResults ==
    << <<<<"Quiz 1", 18, "A+">>, <<"Quiz 2", 17, "A">>,
         <<"Midterm", 42, "A">>, <<"Assignment 1", 28, "A">>,
         <<"Final", 85, "A">>>>,
       <<<<"Quiz 1", 16, "A">>, <<"Midterm", 38, "B+">>,
         <<"Assignment 1", 25, "B+">>>>,
       <<<<"Quiz 1", 19, "A+">>, <<"Midterm", 45, "A">>,
         <<"Project", 90, "A+">>>> >>

\* step 5: if (courseIds[k]) { ... } for the three positions
RECURSIVE ensureMainData(_, _, _, _)
ensureMainData(d, studentId, ids, k) ==
    IF k > 3 THEN d
    ELSE IF k > Len(ids) THEN ensureMainData(d, studentId, ids, k + 1)
    ELSE ensureMainData(
             ensureResults(
                 ensureAttendances(d, studentId, ids[k], MainAttendance[k]),
                 studentId, ids[k], MainResults[k]),
             studentId, ids, k + 1)

\* [...courseIds].sort(() => Math.random() - 0.5).slice(0, 2): any two of
\* the courses, or all of them when there are fewer
shuffledCourses(ids) ==
    {s \in [1..(IF Len(ids) < 2 THEN Len(ids) ELSE 2) -> Range(ids)] :
        \A a, b \in DOMAIN s : a # b => s[a] # s[b]}

statuses == {"present", "late", "absent"}

dates ==
    SubSeq(<<"2025-01-06", "2025-01-07", "2025-01-08", "2025-01-09",
             "2025-01-10">>, 1, MaxDates)

\* 60 + Math.floor(Math.random() * 35), sampled around the grade limits
randomMarks == {69, 70, 85}

gradeOf(marks) ==
    IF marks >= 85 THEN "A"
    ELSE IF marks >= 70 THEN "B"
    ELSE IF marks >= 60 THEN "C"
    ELSE "D"

SeedSuccess == [status |-> 200, success |-> "true"]
SeedError == [status |-> 500, success |-> "false"]
SeedMethodNotAllowed == [status |-> 405, success |-> "false"]
SeedPreflight == [status |-> 200, success |-> "none"]
NoSeedResponse == [status |-> 0, success |-> "none"]

\* courses some admin created before the first seeding
PreCourses == <<"X1", "X2", "X3", "X4">>

InitSeed(existing) ==
    /\ seedPc = "idle"
    /\ \E n \in existing :
          seedDb = [EmptyDb EXCEPT
                       !.departments = IF n > 0 THEN <<"D0">> ELSE <<>>,
                       !.courses = SubSeq(PreCourses, 1, n)]
    /\ departmentId = NoId
    /\ courseIds = <<>>
    /\ studentRowId = NoId
    /\ additionalStudentIds = <<>>
    /\ seedI = 0
    /\ seedResponse = NoSeedResponse
    /\ seeded = FALSE
    /\ seedBefore = [db |-> seedDb, seeded |-> FALSE]

\* OPTIONS, or a method other than POST
seedOtherMethod ==
    /\ seedPc = "idle"
    /\ \E method \in {"OPTIONS", "GET"} :
          seedResponse' = IF method = "OPTIONS" THEN SeedPreflight
                          ELSE SeedMethodNotAllowed
    /\ UNCHANGED <<seedPc, seedDb, departmentId, courseIds, studentRowId,
                   additionalStudentIds, seedI, seeded, seedBefore>>
    /\ UNCHANGED besideSeed

\* POST: 1) create admin user
seedAdmin ==
    /\ seedPc = "idle"
    /\ seedBefore' = [db |-> seedDb, seeded |-> seeded]
    /\ seedResponse' = NoSeedResponse
    /\ seedDb' = createOrUpdateAuthUser(seedDb, DEMO_ADMIN)
    /\ departmentId' = NoId
    /\ courseIds' = <<>>
    /\ studentRowId' = NoId
    /\ additionalStudentIds' = <<>>
    /\ seedI' = 0
    /\ seedPc' = "department"
    /\ UNCHANGED seeded
    /\ UNCHANGED besideSeed

\* 2) ensure department and courses exist
seedDepartment ==
    /\ seedPc = "department"
    /\ LET dept == getOrCreateDepartment(seedDb)
           crs == getOrCreateCourses(dept.db, dept.id)
       IN  /\ departmentId' = dept.id
           /\ courseIds' = crs.ids
           /\ seedDb' = crs.db
    /\ seedPc' = "student"
    /\ UNCHANGED <<studentRowId, additionalStudentIds, seedI, seedResponse,
                   seeded, seedBefore>>
    /\ UNCHANGED besideSeed

\* 3) create student user
seedStudent ==
    /\ seedPc = "student"
    /\ LET d == createOrUpdateAuthUser(seedDb, DEMO_STUDENT)
           st == ensureStudentRecord(d, DEMO_STUDENT.email, DEMO_STUDENT)
       IN  /\ studentRowId' = st.id
           /\ seedDb' = st.db
    /\ seedPc' = "enrollments"
    /\ UNCHANGED <<departmentId, courseIds, additionalStudentIds, seedI,
                   seedResponse, seeded, seedBefore>>
    /\ UNCHANGED besideSeed

\* 4) ensure demo enrollments, 5) sample attendance and results
seedMainData ==
    /\ seedPc = "enrollments"
    /\ seedDb' = ensureMainData(
                     ensureEnrollments(seedDb, studentRowId, courseIds),
                     studentRowId, courseIds, 1)
    /\ seedPc' = "additional"
    /\ UNCHANGED <<departmentId, courseIds, studentRowId,
                   additionalStudentIds, seedI, seedResponse, seeded,
                   seedBefore>>
    /\ UNCHANGED besideSeed

\* 6) one turn of the loop over ADDITIONAL_STUDENTS
seedAdditionalStudent ==
    /\ seedPc = "additional"
    /\ LET k == Len(additionalStudentIds) + 1
           st == ensureStudentRecord(seedDb, NoId, ADDITIONAL_STUDENTS[k])
       IN  /\ additionalStudentIds' = Append(additionalStudentIds, st.id)
           /\ \E shuffled \in shuffledCourses(courseIds) :
                 seedDb' = ensureEnrollments(st.db, st.id, shuffled)
           /\ seedPc' = IF k = Len(ADDITIONAL_STUDENTS)
                        THEN "additionalData" ELSE "additional"
    /\ UNCHANGED <<departmentId, courseIds, studentRowId, seedI,
                   seedResponse, seeded, seedBefore>>
    /\ UNCHANGED besideSeed

\* one turn of the loop over additionalStudentIds
seedAdditionalData ==
    /\ seedPc = "additionalData"
    /\ LET addStudentId == additionalStudentIds[seedI + 1]
           courseId == courseIds[(seedI % Len(courseIds)) + 1]
       IN  \E randomStatus \in [DOMAIN dates -> statuses],
              marks \in randomMarks :
              seedDb' = ensureResult(
                            ensureAttendances(
                                seedDb, addStudentId, courseId,
                                [n \in DOMAIN dates |->
                                    <<dates[n], randomStatus[n]>>]),
                            addStudentId, courseId, "Midterm", marks,
                            gradeOf(marks))
    /\ seedI' = seedI + 1
    /\ seedPc' = IF seedI + 1 = Len(additionalStudentIds)
                 THEN "respond" ELSE "additionalData"
    /\ UNCHANGED <<departmentId, courseIds, studentRowId,
                   additionalStudentIds, seedResponse, seeded, seedBefore>>
    /\ UNCHANGED besideSeed

\* the success response
seedRespond ==
    /\ seedPc = "respond"
    /\ seedResponse' = SeedSuccess
    /\ seeded' = TRUE
    /\ seedPc' = "idle"
    /\ UNCHANGED <<seedDb, departmentId, courseIds, studentRowId,
                   additionalStudentIds, seedI, seedBefore>>
    /\ UNCHANGED besideSeed

\* a checked call fails: the error is thrown to the catch block
seedThrows ==
    /\ seedPc \notin {"idle", "respond"}
    /\ seedResponse' = SeedError
    /\ seedPc' = "idle"
    /\ UNCHANGED <<seedDb, departmentId, courseIds, studentRowId,
                   additionalStudentIds, seedI, seeded, seedBefore>>
    /\ UNCHANGED besideSeed

InitHandler(count) ==
    /\ InitGateway(count)
    /\ InitSurface({"courses"}, {Absent})
    /\ InitRoute({1})
    /\ InitSeed({0})
    /\ InitAuth({NoUser})

UpsertRequests(operations, ids, ghosts) ==
    {Request("POST", op, "departments", Obj(RequestRow(id, v, k)), Null) :
        op \in operations, id \in ids, v \in {1, MaxValue}, k \in ghosts}

OtherRequests(ids) ==
    {Request("POST", "DELETE", "departments", JsonNull, id) : id \in ids}
    \cup {Request("POST", op, t, JsonNull, Null) :
             op \in {"SYNC_ALL", "MERGE"}, t \in Tables}
    \cup {Request("POST", "INSERT", "notices", JsonNull, Null),
          Request("OPTIONS", "", "", JsonNull, Null)}

Step(requests) ==
    \/ \E r \in requests, e \in Envs : Serve(r, e)
    \/ upsertWithAutoDrop
    \/ Delete
    \/ SyncAllSelect
    \/ legacyUpsert
    \/ legacyDelete
    \/ legacySelect
    \/ legacyBatch

\* the small scenario: tables of at most SmallRows rows; request rows carry
\* no extra column, one, or SmallGhost of them, and the value 1 or MaxValue;
\* UPDATE, which takes the branch of INSERT, is asked for one row
Requests ==
    UpsertRequests({"INSERT"}, {1, 3}, {0, 1, SmallGhost})
    \cup UpsertRequests({"UPDATE"}, {1}, {1})
    \cup OtherRequests({1, 3})

Init ==
    /\ \E n \in {0, SmallRows}, opt \in SchemaOptions :
          InitStores(n, 1, opt, {1, 2})
    /\ InitHandler(0)

Next == Step(Requests)

Spec == Init /\ [][Next]_vars

\* the retry scenario: one request, whose row carries many columns that
\* the secondary lacks
RetryRequests ==
    UpsertRequests({"INSERT", "UPDATE"}, {1}, (MaxGhost - 2)..MaxGhost)
    \cup OtherRequests({1})

InitRetry ==
    /\ \E opt \in {o \in SchemaOptions : o.lack = {}} :
          InitStores(SmallRows, 1, opt, {1, 2})
    /\ InitHandler(MaxRequests - 1)

NextRetry == Step(RetryRequests)

SpecRetry == InitRetry /\ [][NextRetry]_vars

\* the bulk scenario: one request, against primary tables of up to MaxRows
\* rows, while the secondary's schema may gain columns
BulkRequests ==
    UpsertRequests({"INSERT", "UPDATE"}, {1}, {1}) \cup OtherRequests({1})

BulkSizes == {0, 1, batchSize, batchSize + 1, 2 * batchSize, MaxRows}

InitBulk ==
    /\ \E n \in BulkSizes, opt \in SchemaOptions :
          InitStores(n, 1, opt, {1, 2})
    /\ InitHandler(MaxRequests - 1)

NextBulk == Step(BulkRequests) \/ AlterSecondary

SpecBulk == InitBulk /\ [][NextBulk]_vars

\* the scenario of a secondary whose PGRST204 replies may name no column or
\* a column already dropped: one request
InitDrift ==
    /\ \E n \in {0, SmallRows}, opt \in SchemaOptions :
          InitStores(n, 1, opt, {1, 2})
    /\ InitHandler(MaxRequests - 1)

NextDrift == Step(Requests) \/ upsertRefusedAgain

SpecDrift == InitDrift /\ [][NextDrift]_vars

(***************************************************************************)
(* Vocabulary of the properties.                                           *)
(***************************************************************************)
\* the scenario of one admin editing one row through one of the surfaces
InitSurfaces ==
    /\ InitStores(0, 1, [lack |-> {}, extra |-> {}], {1, 2})
    /\ InitGateway(0)
    /\ handlerCopy = 1
    /\ InitSurface(Surfaces, {Absent, Row(0)})
    /\ InitRoute({1})
    /\ InitSeed({0})
    /\ InitAuth({NoUser})

NextSurfaces ==
    \/ openCreateDialog
    \/ openEditDialog
    \/ openDeleteDialog
    \/ cancelDialog
    \/ cancelDeleteDialog
    \/ handleSubmit
    \/ handleDelete
    \/ submitWritten
    \/ deleteWritten
    \/ invoked

SpecSurfaces == InitSurfaces /\ [][NextSurfaces]_vars

\* the scenario of any caller of the four helpers, up to the dispatch of
\* the requests they build
HelperTables == {"courses", "results"}

HelperCalls ==
    {syncInsert(t, [id |-> "r1", v |-> 1]) : t \in HelperTables}
    \cup {syncUpdate(t, [id |-> "r1", v |-> 2]) : t \in HelperTables}
    \cup {syncDelete(t, "r1") : t \in HelperTables}
    \cup {syncAllRecords(t) : t \in HelperTables}

callHelper ==
    /\ Len(sent) < MaxCalls
    /\ \E payload \in HelperCalls :
          /\ sent' = Append(sent, payload)
          /\ net' = net \cup {[n |-> Len(sent) + 1, payload |-> payload]}
    /\ UNCHANGED <<surface, uiPc, editing, saving, dialogOpen,
                   deleteDialogOpen, prow, srow, commits, returned, toast>>
    /\ UNCHANGED besideSurface

InitHelpers ==
    /\ InitStores(0, 1, [lack |-> {}, extra |-> {}], {1, 2})
    /\ InitGateway(0)
    /\ handlerCopy = 1
    /\ InitSurface({"courses"}, {Absent, Row(0)})
    /\ InitRoute({1})
    /\ InitSeed({0})
    /\ InitAuth({NoUser})

NextHelpers == callHelper

SpecHelpers == InitHelpers /\ [][NextHelpers]_vars

\* the scenario of one browser session moving through the routes
InitRoutes ==
    /\ InitStores(0, 1, [lack |-> {}, extra |-> {}], {1, 2})
    /\ InitGateway(0)
    /\ handlerCopy = 1
    /\ InitSurface({"courses"}, {Absent})
    /\ InitRoute({1, 2})
    /\ InitSeed({0})
    /\ InitAuth({NoUser})

NextRoutes ==
    \/ onAuthStateChange
    \/ navigate
    \/ followNavigate

SpecRoutes == InitRoutes /\ [][NextRoutes]_vars

\* the scenario of create-demo-users called again and again
InitSeeds ==
    /\ InitStores(0, 1, [lack |-> {}, extra |-> {}], {1, 2})
    /\ InitGateway(0)
    /\ handlerCopy = 1
    /\ InitSurface({"courses"}, {Absent})
    /\ InitRoute({1})
    /\ InitSeed({0, 1, 4})
    /\ InitAuth({NoUser})

NextSeeds ==
    \/ seedOtherMethod
    \/ seedAdmin
    \/ seedDepartment
    \/ seedStudent
    \/ seedMainData
    \/ seedAdditionalStudent
    \/ seedAdditionalData
    \/ seedRespond
    \/ seedThrows

SpecSeeds == InitSeeds /\ [][NextSeeds]_vars

\* the scenario of one browser tab: the provider mounts with or without a
\* stored session, and the user signs in and out
InitAuths ==
    /\ InitStores(0, 1, [lack |-> {}, extra |-> {}], {1, 2})
    /\ InitGateway(0)
    /\ handlerCopy = 1
    /\ InitSurface({"courses"}, {Absent})
    /\ InitRoute({1})
    /\ InitSeed({0})
    /\ InitAuth({NoUser, "admin-id"})

NextAuths ==
    \/ getSessionResolved
    \/ signIn
    \/ signedIn
    \/ signOut
    \/ signedOut
    \/ tokenRefreshed
    \/ timerFires
    \/ roleFetched

SpecAuths == InitAuths /\ [][NextAuths]_vars

Idle == pc = "idle" /\ response # NoResponse

IsUpsertRequest == req.method = "POST" /\ req.operation \in {"INSERT", "UPDATE"}
IsDeleteRequest == req.method = "POST" /\ req.operation = "DELETE"
IsSyncRequest == req.method = "POST" /\ req.operation = "SYNC_ALL"

\* the replies of the store to the upserts of req, in order
UpsertOps == SelectSeq(ops, LAMBDA o : o.op = "upsert")

\* the store answered with the missing-column error naming `column`
Rejects(o, column) == o.reply = MissingColumnError(column, o.table)

\* C1's request: one row with exactly the columns id, name, ghost_column
IsGhostRow ==
    /\ IsUpsertRequest
    /\ IsObj(req.data)
    /\ DOMAIN req.data.v = {"id", "name", "ghost_column"}

\* C1's store: it has id and name, lacks ghost_column, and has answered
\* nothing but success and the missing-column error naming ghost_column
RejectsExactlyGhost ==
    /\ {"id", "name"} \subseteq schema["secondary"][req.table]
    /\ "ghost_column" \notin schema["secondary"][req.table]
    /\ \A k \in 1..Len(ops) :
          ops[k].reply = NoError \/ Rejects(ops[k], "ghost_column")

\* C1: auto-drop convergence.  A request whose row has the columns id,
\* name and ghost_column, against a secondary that rejects exactly
\* ghost_column, succeeds with droppedColumns = [ghost_column], and the
\* row stored for its id has no ghost_column and holds the row's id and name.
C1_AutoDropConvergence ==
    (handlerCopy = 1 /\ pc = "idle" /\ IsGhostRow /\ RejectsExactlyGhost
       /\ ops # <<>>)
    => /\ IsSuccess(response)
       /\ response.body.result.droppedColumns = <<"ghost_column">>
       /\ LET row == req.data.v
              table == secondary[req.table]
          IN  /\ row["id"] \in DOMAIN table
              /\ "ghost_column" \notin DOMAIN table[row["id"]]
              /\ table[row["id"]]["id"] = row["id"]
              /\ table[row["id"]]["name"] = row["name"]

C1_Witness ==
    /\ handlerCopy = 1 /\ pc = "idle" /\ IsGhostRow /\ RejectsExactlyGhost
    /\ Len(ops) = 2
    /\ Rejects(ops[1], "ghost_column")
    /\ IsSuccess(response)
    /\ req.data.v["name"] # dbBefore["secondary"][req.table][1]["name"]
    /\ req.data.v["id"] = 1

\* every upsert of req was answered with a missing-column error, and no
\* two of them named the same column
AllRepliesNameNewColumns ==
    /\ \A k \in 1..Len(ops) :
          /\ ops[k].op = "upsert"
          /\ ops[k].reply.code = "PGRST204"
          /\ matchMissingColumn(ops[k].reply.message) # ""
    /\ \A k, l \in 1..Len(ops) :
          matchMissingColumn(ops[k].reply.message)
             = matchMissingColumn(ops[l].reply.message) => k = l

NamedColumns == [k \in 1..Len(ops) |-> matchMissingColumn(ops[k].reply.message)]

\* C2: retry bound.  When the secondary names a different missing column
\* on every attempt of one upsert call, the call makes 10 attempts and no
\* more, and then fails with the exhausted-retry error, which lists exactly
\* the 10 columns dropped, in the order of their discovery.
C2_RetryBound ==
    (handlerCopy = 1 /\ IsUpsertRequest /\ AllRepliesNameNewColumns)
    => /\ Len(ops) <= 10
       /\ Len(ops) < 10 => pc = "upsert" \/ ops = <<>>
       /\ Len(ops) = 10 =>
             /\ pc = "idle"
             /\ response = CatchResponse(ExhaustedError(NamedColumns))
             /\ Len(response.body.error) = 1 + 10
             /\ db = dbBefore

\* the request of C2: 11 columns of the row are missing in the secondary
C2_Witness ==
    /\ handlerCopy = 1 /\ IsUpsertRequest /\ AllRepliesNameNewColumns
    /\ IsObj(req.data)
    /\ Cardinality(DOMAIN req.data.v \ schema["secondary"][req.table]) = 11
    /\ Len(ops) = 10
    /\ IsFailure(response)
    /\ Cardinality(Range(droppedColumns)) = 10

\* the missing-column signature: code PGRST204 and a message naming a column
IsMissingColumnSignature(error) ==
    error.code = "PGRST204" /\ matchMissingColumn(error.message) # ""

\* C3: non-column errors are not retried.  An upsert attempt answered with
\* an error that is not the missing-column signature is the last operation
\* of the request, which fails with that error; when it was the first
\* attempt of its upsert call, no column has been dropped.
C3_NonColumnErrorNotRetried ==
    handlerCopy = 1 =>
       \A k \in 1..Len(ops) :
          (/\ ops[k].op = "upsert"
           /\ ops[k].reply # NoError
           /\ ~IsMissingColumnSignature(ops[k].reply))
          => /\ k = Len(ops)
             /\ pc = "idle"
             /\ response = CatchResponse(ops[k].reply)
             /\ response.body.details.code = ops[k].reply.code
             /\ (k = 1 \/ ops[k - 1].reply = NoError) => droppedColumns = <<>>

\* permission denied on the first attempt of an INSERT whose row would
\* otherwise have needed a column dropped
C3_Witness ==
    /\ handlerCopy = 1 /\ pc = "idle" /\ IsGhostRow
    /\ "ghost_column" \notin schema["secondary"][req.table]
    /\ Len(ops) = 1
    /\ ops[1].reply = PermissionDenied(req.table)
    /\ IsFailure(response)
    /\ droppedColumns = <<>>

\* SYNC_ALL has read the primary and every store operation of the request
\* was answered without error
SyncAllAccepted ==
    /\ IsSyncRequest
    /\ pc = "idle"
    /\ ops # <<>>
    /\ \A k \in 1..Len(ops) : ops[k].reply = NoError

\* the ids of the k-th slice of 100 rows of the primary table, in order
SliceIds(table, k) ==
    LET n == Cardinality(DOMAIN primary[table])
    IN  [j \in 1..Min(100, n - (k - 1) * 100) |->
            primary[table][(k - 1) * 100 + j]["id"]]

\* C4: ResyncAll batching.  With N rows in the primary table and a
\* secondary that accepts every upsert, SYNC_ALL sends ceil(N/100) upserts,
\* the k-th of them holding exactly the k-th slice of 100 rows (fewer in
\* the last), and answers synced = N.
C4_ResyncAllBatching ==
    SyncAllAccepted =>
       LET n == Cardinality(DOMAIN primary[req.table])
       IN  /\ Len(UpsertOps) = (n + 99) \div 100
           /\ \A k \in 1..Len(UpsertOps) :
                 UpsertOps[k].ids = SliceIds(req.table, k)
           /\ IsSuccess(response)
           /\ response.body.result.synced = n

\* 250 rows: batches of 100, 100 and 50
C4_Witness ==
    /\ SyncAllAccepted
    /\ Cardinality(DOMAIN primary[req.table]) = 250
    /\ Len(UpsertOps) = 3
    /\ Len(UpsertOps[1].ids) = 100
    /\ Len(UpsertOps[2].ids) = 100
    /\ Len(UpsertOps[3].ids) = 50
    /\ response.body.result.synced = 250

\* C5: read-only primary.  Whatever the operation and its outcome, the
\* primary holds what it held when the request arrived, and the only
\* operation the handler issues against it is the select of SYNC_ALL.
C5_ReadOnlyPrimary ==
    /\ primary = dbBefore["primary"]
    /\ \A k \in 1..Len(ops) :
          ops[k].store = "primary" => ops[k].op = "select" /\ IsSyncRequest

\* a SYNC_ALL that read the primary and changed the secondary
C5_Witness ==
    /\ SyncAllAccepted
    /\ ops[1].store = "primary"
    /\ Len(UpsertOps) >= 1
    /\ secondary # dbBefore["secondary"]
    /\ primary[req.table] # <<>>

\* the store answered the upserts of req with nothing but success and
\* missing-column errors
OnlySchemaReplies ==
    \A k \in 1..Len(ops) :
       ops[k].reply = NoError \/ IsMissingColumnSignature(ops[k].reply)

\* C6: idempotence of upsert.  When an INSERT or UPDATE request has been
\* applied successfully and the same request is applied again, the
\* secondary stays as the first application left it; when the second
\* application reaches the store and the store fails for no other reason
\* than a missing column, it succeeds too and returns the same set of
\* dropped columns.
C6_UpsertIdempotent ==
    (IsUpsertRequest /\ IsSuccess(prevSame) /\ schema = schemaBefore)
    => /\ secondary = dbBefore["secondary"]
       /\ (pc = "idle" /\ ops # <<>> /\ OnlySchemaReplies) =>
             /\ IsSuccess(response)
             /\ handlerCopy = 1 =>
                   Range(response.body.result.droppedColumns)
                      = Range(prevSame.body.result.droppedColumns)

\* the second application of a request whose row lost a column
C6_Witness ==
    /\ handlerCopy = 1 /\ pc = "idle"
    /\ IsUpsertRequest /\ IsSuccess(prevSame) /\ IsSuccess(response)
    /\ Len(ops) = 2
    /\ response.body.result.droppedColumns # <<>>
    /\ req.data.v["id"] = 1

\* C7: idempotence of delete.  A DELETE never removes or changes a row
\* with another id; when its id is absent from the secondary table and the
\* store reports no error, the request succeeds with {deleted: true, id}
\* and the secondary is as it was.
C7_DeleteIdempotent ==
    (handlerCopy = 1 /\ IsDeleteRequest)
    => LET before == dbBefore["secondary"]
       IN  /\ \A t \in Tables :
                 \A x \in DOMAIN before[t] :
                    (t # req.table \/ x # req.id)
                    => x \in DOMAIN secondary[t] /\ secondary[t][x] = before[t][x]
           /\ (/\ pc = "idle"
               /\ ops # <<>>
               /\ ops[1].reply = NoError
               /\ req.id \notin DOMAIN before[req.table])
              => /\ response = SuccessResponse([deleted |-> TRUE, id |-> req.id])
                 /\ secondary = before

\* the second DELETE of an id that the first one removed
C7_Witness ==
    /\ handlerCopy = 1 /\ IsDeleteRequest /\ pc = "idle"
    /\ IsSuccess(prevSame)
    /\ IsSuccess(response)
    /\ req.id = 1
    /\ req.id \notin DOMAIN dbBefore["secondary"][req.table]
    /\ 2 \in DOMAIN secondary[req.table]

\* a DELETE that removed its row and left the other one
C7_WitnessRemoved ==
    /\ handlerCopy = 1 /\ IsDeleteRequest /\ pc = "idle"
    /\ req.id \in DOMAIN dbBefore["secondary"][req.table]
    /\ req.id \notin DOMAIN secondary[req.table]
    /\ 2 \in DOMAIN secondary[req.table]

\* SYNC_ALL of the auto-dropping handler has ended with a success response
SyncAllSucceeded ==
    /\ handlerCopy = 1
    /\ IsSyncRequest
    /\ pc = "idle"
    /\ IsSuccess(response)

\* the columns dropped by the batches of the request, batch by batch
DroppedByBatches == UNION {Range(batchDrops[k]) : k \in 1..Len(batchDrops)}

\* C8: dropped columns of SYNC_ALL.  A successful SYNC_ALL has run one
\* upsertWithAutoDrop per slice of 100 rows, and the droppedColumns of its
\* result holds exactly the columns dropped by at least one of them, each
\* once: none when no batch dropped a column or the table is empty.
C8_DroppedColumnsUnion ==
    SyncAllSucceeded =>
       LET dc == response.body.result.droppedColumns
       IN  /\ Len(batchDrops) = (Len(allData) + batchSize - 1) \div batchSize
           /\ Range(dc) = DroppedByBatches
           /\ \A a, b \in 1..Len(dc) : dc[a] = dc[b] => a = b
           /\ DroppedByBatches = {} => dc = <<>>
           /\ allData = <<>> => dc = <<>>

\* two batches that dropped different lists with a column in common
C8_Witness ==
    /\ SyncAllSucceeded
    /\ Len(batchDrops) >= 2
    /\ Len(batchDrops[1]) = 2
    /\ Len(batchDrops[2]) = 1
    /\ batchDrops[2][1] \in Range(batchDrops[1])
    /\ Len(response.body.result.droppedColumns) = 2

\* number of slices of 100 rows of the primary table of req
SliceCount == (Cardinality(DOMAIN primary[req.table]) + 99) \div 100

\* the position of the slice an upsert of SYNC_ALL carries, 0 if it is none
SliceOf(o) ==
    IF \E j \in 1..SliceCount : SliceIds(req.table, j) = o.ids
    THEN CHOOSE j \in 1..SliceCount : SliceIds(req.table, j) = o.ids
    ELSE 0

\* the rows of slice j are in the secondary, with the primary's values in
\* every column that the accepted upsert of the slice carried
SlicePresent(j) ==
    \E m \in 1..Len(UpsertOps) :
       /\ SliceOf(UpsertOps[m]) = j
       /\ UpsertOps[m].reply = NoError
       /\ \A k \in 1..Len(SliceIds(req.table, j)) :
             LET x == SliceIds(req.table, j)[k]
                 row == primary[req.table][(j - 1) * 100 + k]
             IN  /\ x \in DOMAIN secondary[req.table]
                 /\ \A c \in UpsertOps[m].cols :
                       secondary[req.table][x][c] = row[c]

\* the request has ended on an upsert the store refused
BatchFailed ==
    /\ IsSyncRequest
    /\ pc = "idle"
    /\ UpsertOps # <<>>
    /\ ops[Len(ops)].reply # NoError

\* C9: sequential batches.  The upserts of one SYNC_ALL carry the slices in
\* order: the first carries slice 1, and each next one carries the same
\* slice again after a refusal (a retry without the missing column) or the
\* next slice after a success, never anything else.  When the request ends
\* on a refused upsert of slice k, slices 1..k-1 are in the secondary, no
\* upsert carried a slice after k, and the response is an error.
C9_SequentialBatches ==
    IsSyncRequest =>
       /\ \A m \in 1..Len(UpsertOps) :
             /\ SliceOf(UpsertOps[m]) >= 1
             /\ m = 1 => SliceOf(UpsertOps[m]) = 1
             /\ m > 1 =>
                   IF UpsertOps[m - 1].reply = NoError
                   THEN SliceOf(UpsertOps[m]) = SliceOf(UpsertOps[m - 1]) + 1
                   ELSE SliceOf(UpsertOps[m]) = SliceOf(UpsertOps[m - 1])
       /\ BatchFailed =>
             LET k == SliceOf(UpsertOps[Len(UpsertOps)])
             IN  /\ \A j \in 1..(k - 1) : SlicePresent(j)
                 /\ \A m \in 1..Len(UpsertOps) : SliceOf(UpsertOps[m]) <= k
                 /\ IsFailure(response)

\* the third of three batches is refused after the first two went through
C9_Witness ==
    /\ BatchFailed
    /\ SliceCount = 3
    /\ SliceOf(UpsertOps[Len(UpsertOps)]) = 3
    /\ Cardinality(DOMAIN dbBefore["secondary"][req.table]) = 2
    /\ Cardinality(DOMAIN secondary[req.table]) = 200

\* the request ended with an error response and without any operation
\* against either store
FailedUntouched ==
    /\ pc = "idle"
    /\ IsFailure(response)
    /\ ops = <<>>
    /\ db = dbBefore

\* C10: configuration error.  A request other than OPTIONS that finds the
\* secondary's URL or key missing ends with an error response and issues
\* no select, upsert or delete against either store; a SYNC_ALL that finds
\* the primary's URL or key missing ends the same way, before the select on
\* the primary and before any write to the secondary.
C10_ConfigurationError ==
    /\ (/\ req # NoRequest
        /\ req.method # "OPTIONS"
        /\ (cfg.externalUrl = "unset" \/ cfg.externalKey = "unset"))
       => FailedUntouched
    /\ (/\ IsSyncRequest
        /\ (cfg.lovableUrl = "unset" \/ cfg.lovableKey = "unset"))
       => FailedUntouched

\* an upsert arrives while the secondary's key is missing
C10_Witness ==
    /\ IsUpsertRequest
    /\ IsObj(req.data)
    /\ cfg.externalUrl = "set"
    /\ cfg.externalKey = "unset"
    /\ response = CredentialsResponse(credentialsText)

\* a SYNC_ALL arrives while the primary's URL is missing
C10_WitnessPrimary ==
    /\ IsSyncRequest
    /\ cfg.externalUrl = "set"
    /\ cfg.externalKey = "set"
    /\ cfg.lovableUrl = "unset"
    /\ response = CatchResponse(NewError(<<primaryCredentialsText>>))

\* the request ended in the catch block on a PGRST204 reply of the secondary
MissingColumnSurfaced ==
    /\ handlerCopy = 1
    /\ pc = "idle"
    /\ UpsertOps # <<>>
    /\ ops[Len(ops)].reply.code = "PGRST204"
    /\ IsFailure(response)

\* C11 as stated: missing-column failures are recovered.  A request that
\* ends with an error response after a PGRST204 reply of the secondary has
\* used up its ten attempts, and the error is the exhausted-retry error;
\* this also when the reply names a column already dropped or no column.
C11_MissingColumnRecovered ==
    MissingColumnSurfaced =>
       /\ Len(droppedColumns) = maxAttempts
       /\ response = CatchResponse(ExhaustedError(droppedColumns))

\* the handler has answered the request req
Answered == pc = "idle" /\ req # NoRequest

Is2xx(r) == r.status >= 200 /\ r.status <= 299

\* an OPTIONS request is answered with an empty body and touches no store
PreflightShortCircuits ==
    (Answered /\ req.method = "OPTIONS")
    => /\ response = PreflightResponse
       /\ ops = <<>>
       /\ db = dbBefore

\* C12 as stated: {success: true, result} with a 2xx status exactly when
\* every store operation of the request succeeded, a body with error and
\* details and a non-2xx status on every failure, and OPTIONS answered with
\* an empty body without touching a store.
C12_AsStated ==
    /\ PreflightShortCircuits
    /\ (Answered /\ req.method # "OPTIONS")
       => /\ (/\ Is2xx(response)
              /\ DOMAIN response.body = {"success", "result"}
              /\ response.body.success)
             <=> (\A k \in 1..Len(ops) : ops[k].reply = NoError)
          /\ ~IsSuccess(response)
             => /\ ~Is2xx(response)
                /\ {"error", "details"} \subseteq DOMAIN response.body

\* C12: response contract of the handler of lines 18-222.  A request other
\* than OPTIONS is answered {success: true, result} with status 200 exactly
\* when it issued store operations and the last of them succeeded (this is
\* so only with the credentials present and a known operation; upserts
\* refused for a missing column and retried do not count against it).
\* Every other request is answered with status 500 and a body holding
\* error, and holding details too unless the secondary's credentials are
\* missing.  OPTIONS is answered with an empty body and touches no store.
C12_ResponseContract ==
    /\ PreflightShortCircuits
    /\ (handlerCopy = 1 /\ Answered /\ req.method # "OPTIONS")
       => LET succeeded == ops # <<>> /\ ops[Len(ops)].reply = NoError
          IN  /\ succeeded
                 <=> /\ response.status = 200
                     /\ DOMAIN response.body = {"success", "result"}
                     /\ response.body.success
              /\ succeeded
                 => /\ cfg.externalUrl = "set" /\ cfg.externalKey = "set"
                    /\ req.operation \in {"INSERT", "UPDATE", "DELETE", "SYNC_ALL"}
              /\ ~succeeded
                 => /\ response.status = 500
                    /\ "error" \in DOMAIN response.body
                    /\ "details" \in DOMAIN response.body
                       <=> (cfg.externalUrl = "set" /\ cfg.externalKey = "set")

\* a success although the secondary refused an upsert of the request
C12_Witness ==
    /\ handlerCopy = 1
    /\ Answered
    /\ IsSuccess(response)
    /\ \E k \in 1..Len(ops) : ops[k].reply # NoError

\* a failure without details: the secondary's credentials are missing
C12_WitnessNoDetails ==
    /\ handlerCopy = 1
    /\ Answered
    /\ IsFailure(response)
    /\ "details" \notin DOMAIN response.body

\* C17: shape of the requests.  Every payload built by syncInsert,
\* syncUpdate, syncDelete or syncAllRecords carries data exactly when its
\* operation is INSERT or UPDATE and id exactly when it is DELETE.
C17_RequestShape ==
    \A k \in 1..Len(sent) :
       /\ "data" \in DOMAIN sent[k]
          <=> sent[k].operation \in {"INSERT", "UPDATE"}
       /\ "id" \in DOMAIN sent[k] <=> sent[k].operation = "DELETE"
       /\ {"operation", "table"} \subseteq DOMAIN sent[k]

\* an insert, a delete and a full resync have been requested
C17_Witness ==
    /\ Len(sent) = 3
    /\ sent[1].operation = "INSERT" /\ DOMAIN sent[1] = {"operation", "table", "data"}
    /\ sent[2].operation = "DELETE" /\ DOMAIN sent[2] = {"operation", "table", "id"}
    /\ sent[3].operation = "SYNC_ALL" /\ DOMAIN sent[3] = {"operation", "table"}

\* the request that the change commits[k] calls for
RequestFor(c) ==
    IF c.change = "insert"
    THEN [operation |-> "INSERT", table |-> surface,
          data |-> [id |-> c.id, v |-> c.v]]
    ELSE IF c.change = "update"
    THEN [operation |-> "UPDATE", table |-> surface,
          data |-> [id |-> c.id, v |-> c.v]]
    ELSE [operation |-> "DELETE", table |-> surface, id |-> c.id]

\* C13: caller-side dispatch.  On every editing surface, the requests
\* passed to the gateway are, one for one and in order, the requests for
\* the changes committed to the primary.
C13_OneRequestPerCommit ==
    /\ Len(sent) = Len(commits)
    /\ \A k \in 1..Len(commits) : sent[k] = RequestFor(commits[k])

\* a call of syncToExternal has ended without success
ReplicationFailed == returned # <<>> /\ ~returned[Len(returned)].value

\* C14: replication failure is not fatal.  No call of syncToExternal ends
\* in an exception: it returns true when invoke gave data and false
\* otherwise.  The step in which a call ends leaves the primary's row as
\* it is, and when a handler was waiting for the call, that step ends the
\* handler with its dialog closed and saving cleared, whatever the call
\* returned.
C14_ReplicationFailureNonFatal ==
    /\ [](\A k \in 1..Len(returned) :
             /\ ~returned[k].threw
             /\ returned[k].value <=> returned[k].outcome = "data")
    /\ [][returned' # returned
          => /\ prow' = prow
             /\ commits' = commits
             /\ uiPc = "submitSync"
                => uiPc' = "idle" /\ ~saving' /\ ~dialogOpen'
             /\ uiPc = "deleteSync"
                => uiPc' = "idle" /\ ~saving' /\ ~deleteDialogOpen']_vars

\* an awaited replication of an update has failed: the primary keeps the
\* new values, the secondary the old ones, and the dialog is closed
C14_Witness ==
    /\ awaitsSync(surface)
    /\ ReplicationFailed
    /\ Len(commits) = 1
    /\ commits[1].change = "update"
    /\ prow = Row(1)
    /\ srow = Row(0)
    /\ uiPc = "idle" /\ ~saving /\ ~dialogOpen

\* the same on the surfaces whose handlers call the helpers
C13_OnReplicatingSurfaces == replicates(surface) => C13_OneRequestPerCommit

\* nothing is running: no handler is suspended and no request is in flight
Quiescent == uiPc = "idle" /\ net = {}

\* the calls that have ended for the k-th request sent
ReturnsOf(k) == {j \in 1..Len(returned) : returned[j].n = k}

\* C15 as stated: at-least-once.  On a surface that replicates, once
\* nothing is running any more, the request of every committed change has
\* been served successfully at least once.
C15_AtLeastOnce ==
    (replicates(surface) /\ Quiescent)
    => \A k \in 1..Len(commits) :
          \E j \in ReturnsOf(k) : returned[j].outcome = "data"

\* C15: at-most-once.  On a surface that replicates, the request of every
\* committed change is sent once and its call ends once: it is in flight
\* or has returned, never both and never twice, so a call that failed is
\* not followed by another one.
C15_AtMostOnce ==
    replicates(surface)
    => /\ Len(sent) = Len(commits)
       /\ \A k \in 1..Len(sent) :
             Cardinality({m \in net : m.n = k}) + Cardinality(ReturnsOf(k)) = 1

\* the only delivery of a committed update has failed and nothing is left
\* to run: the secondary keeps the old values
C15_Witness ==
    /\ replicates(surface)
    /\ Quiescent
    /\ Len(commits) = 1
    /\ Len(returned) = 1
    /\ returned[1].outcome = "error"
    /\ prow = Row(1)
    /\ srow = Row(0)

\* every request sent has been served, and served without error
AllReplicated ==
    /\ Quiescent
    /\ Len(returned) = Len(sent)
    /\ \A j \in 1..Len(returned) : returned[j].outcome = "data"

\* C16: eventual consistency of the mirror.  On a surface that replicates,
\* once every request has been served and all of them without error, the
\* secondary holds the row exactly as the primary does: the latest values,
\* or no row if the primary deleted it.
C16_MirrorAgrees ==
    (replicates(surface) /\ AllReplicated) => srow = prow

\* the same on the surfaces whose handlers await the helper
C16_OnAwaitingSurfaces ==
    (replicates(surface) /\ awaitsSync(surface) /\ AllReplicated)
    => srow = prow

\* the last reply of the secondary names no column, or one of the columns
\* this call had dropped
LastReplyStale ==
    LET named == matchMissingColumn(ops[Len(ops)].reply.message)
    IN  named = "" \/ named \in Range(droppedColumns)

\* C11, amended: a request ends with an error response after a PGRST204
\* reply only when its ten attempts are used up (the exhausted-retry
\* error), or when that reply names no column or a column already dropped
\* (the reply itself, at once); no column is ever dropped twice in a call.
C11_RecoveredUnlessStale ==
    /\ \A a, b \in 1..Len(droppedColumns) :
          droppedColumns[a] = droppedColumns[b] => a = b
    /\ MissingColumnSurfaced
       => \/ /\ Len(droppedColumns) = maxAttempts
             /\ response = CatchResponse(ExhaustedError(droppedColumns))
          \/ /\ Len(droppedColumns) < maxAttempts
             /\ LastReplyStale
             /\ response = CatchResponse(ops[Len(ops)].reply)

\* the retry after dropping a column is refused with the same column named
C11_Witness ==
    /\ MissingColumnSurfaced
    /\ Len(droppedColumns) = 1
    /\ Len(UpsertOps) = 2
    /\ matchMissingColumn(ops[Len(ops)].reply.message) = droppedColumns[1]
    /\ response = CatchResponse(ops[Len(ops)].reply)

\* the request ended on a store operation refused for another reason than
\* a missing column
StoreFailed ==
    /\ Answered
    /\ ops # <<>>
    /\ ops[Len(ops)].reply # NoError
    /\ ops[Len(ops)].reply.code # "PGRST204"

\* the operation refused was issued once: every earlier operation of the
\* request succeeded or was an upsert refused for a missing column
NotRetried ==
    \A k \in 1..(Len(ops) - 1) :
       ops[k].reply = NoError \/ ops[k].reply.code = "PGRST204"

\* the text appears in the error or the details of the response
Mentions(r, text) ==
    \/ text \in Range(r.body.error)
    \/ "details" \in DOMAIN r.body /\ text \in Range(r.body.details.message)

\* C18 as stated: a store failure is fatal for the call, is not retried,
\* and the failure reported carries the operation and the table name of
\* the request.
C18_AsStated ==
    StoreFailed
    => /\ IsFailure(response)
       /\ NotRetried
       /\ Mentions(response, req.operation)
       /\ Mentions(response, req.table)

\* What the handler does on a store failure: the call ends there without a
\* retry, and the response is the catch block's, with error "Unknown error"
\* and the store's own error as details; the operation of the request is
\* not in it.
C18_StoreFailureFatal ==
    StoreFailed
    => /\ IsFailure(response)
       /\ NotRetried
       /\ response = CatchResponse(ops[Len(ops)].reply)
       /\ response.body.error = <<"Unknown error">>
       /\ response.body.details.code = ops[Len(ops)].reply.code
       /\ ~Mentions(response, req.operation)

\* the select on the primary is refused: SYNC_ALL ends before any upsert
C18_Witness ==
    /\ StoreFailed
    /\ IsSyncRequest
    /\ Len(ops) = 1
    /\ ops[1].store = "primary"
    /\ ops[1].reply = PermissionDenied(req.table)

\* a route with allowedRoles is at the location
Gated == RouteRoles(path).given

RoleAllowed == auth.role # NoRole /\ auth.role \in RouteRoles(path).roles

\* C19: once loading has finished, a ProtectedRoute with allowedRoles
\* renders its children only if a session exists and the role is non-null
\* and allowed; with no session it redirects to /login, with a missing or
\* disallowed role to /dashboard; while loading it renders neither children
\* nor a redirect.  For every ProtectedRoute definition in the source.
C19_RoleGating ==
    Gated
    => /\ auth.loading => rendered = "Loader2"
       /\ ~auth.loading /\ rendered = "children"
             => auth.session /\ RoleAllowed
       /\ ~auth.loading /\ ~auth.session => rendered = "Navigate /login"
       /\ ~auth.loading /\ auth.session /\ ~RoleAllowed
             => rendered = "Navigate /dashboard"

\* the same for the first definition alone
C19_FirstDefinition == routeCopy = 1 => C19_RoleGating

\* a session whose role is missing asks for an admin page
C19_Witness ==
    /\ routeCopy = 1
    /\ path \in AdminPaths
    /\ ~auth.loading /\ auth.session /\ auth.role = NoRole
    /\ rendered = "Navigate /dashboard"

\* a request of create-demo-users has ended with success, and so had an
\* earlier one before it began
SeededAgain ==
    /\ seedPc = "idle"
    /\ seedResponse = SeedSuccess
    /\ seedBefore.seeded

\* the three demo courses are the courses
DemoCoursesPresent == seedDb.courses = <<"CS101", "CS201", "CS301">>

\* C20: running create-demo-users again after a successful run, with the
\* three demo courses present, inserts no row in any table: every table
\* holds the same rows after the run as before it.
C20_SeedIdempotent ==
    SeededAgain /\ DemoCoursesPresent => seedDb = seedBefore.db

\* the same for every table but enrollments
C20_IdempotentButEnrollments ==
    SeededAgain
    => [seedDb EXCEPT !.enrollments = {}]
          = [seedBefore.db EXCEPT !.enrollments = {}]

C20_Witness ==
    /\ SeededAgain
    /\ DemoCoursesPresent
    /\ seedDb.attendance # {}
    /\ seedDb = seedBefore.db

\* the upsert attempts made so far by the call of upsertWithAutoDrop in
\* progress, or those of the last call when none is in progress: the
\* upserts since the last one answered without error
RECURSIVE CallStart(_)
CallStart(k) ==
    IF k = 0 THEN 1
    ELSE IF ops[k].op # "upsert" \/ ops[k].reply = NoError THEN k + 1
    ELSE CallStart(k - 1)

AttemptsOfCall ==
    IF ops = <<>> \/ ops[Len(ops)].op # "upsert" THEN <<>>
    ELSE IF pc = "upsert" /\ ops[Len(ops)].reply = NoError THEN <<>>
    ELSE SubSeq(ops, CallStart(Len(ops) - 1), Len(ops))

\* C21: bounded attempts and termination.  Whatever the secondary answers,
\* one call of upsertWithAutoDrop issues at most 10 upsert attempts and then
\* ends (success, propagated error or exhausted-retry error); droppedColumns
\* never has more than 10 entries and gains exactly one entry from one
\* attempt to the next.
C21_BoundedAttempts ==
    /\ [](handlerCopy = 1
          => /\ attempt <= 10
             /\ Len(droppedColumns) <= 10
             /\ Len(droppedColumns) = attempt
             /\ Len(AttemptsOfCall) <= 10
             /\ pc = "upsert" => attempt < 10
             /\ attempt = 10
                   => /\ pc = "idle"
                      /\ response = CatchResponse(ExhaustedError(droppedColumns)))
    /\ [][(handlerCopy = 1 /\ pc = "upsert" /\ pc' = "upsert"
             /\ ops' # ops /\ ops'[Len(ops')].reply # NoError)
          => /\ attempt' = attempt + 1
             /\ Len(droppedColumns') = Len(droppedColumns) + 1]_vars

\* ten attempts, each answered with a new missing column
C21_Witness ==
    /\ handlerCopy = 1
    /\ pc = "idle"
    /\ attempt = 10
    /\ Len(AttemptsOfCall) = 10
    /\ Len(droppedColumns) = 10
    /\ IsFailure(response)

\* C22: dropped columns stay dropped.  Within one call of
\* upsertWithAutoDrop, once a column is recorded in droppedColumns no later
\* attempt of the call sends a payload in which a row has that column, and
\* droppedColumns never holds a column twice.
C22_DroppedStayDropped ==
    handlerCopy = 1
    => /\ \A k, l \in 1..Len(droppedColumns) :
             droppedColumns[k] = droppedColumns[l] => k = l
       /\ \A c \in Range(droppedColumns) : c \notin PayloadColumns(dataToSend)
       /\ LET a == AttemptsOfCall
          IN  \A k, l \in 1..Len(a) :
                 (k < l /\ a[k].op = "upsert" /\ a[l].op = "upsert")
                 => matchMissingColumn(a[k].reply.message) \notin a[l].cols

\* a batch of several rows went through after a column was dropped from it
C22_Witness ==
    /\ handlerCopy = 1
    /\ IsSyncRequest
    /\ Len(AttemptsOfCall) = 2
    /\ Len(AttemptsOfCall[1].ids) > 1
    /\ AttemptsOfCall[1].reply.code = "PGRST204"
    /\ AttemptsOfCall[2].reply = NoError
    /\ droppedColumns # <<>>

\* the payload the call of upsertWithAutoDrop in progress was given
CallPayload ==
    IF req.operation = "SYNC_ALL" THEN batchOf(allData, i) ELSE req.data

\* a row without the columns, everything else as it was
RowWithout(item, columns) ==
    IF IsObj(item)
    THEN Obj([c \in (DOMAIN item.v) \ columns |-> item.v[c]])
    ELSE item

PayloadWithout(d, columns) ==
    IF IsArr(d) THEN Arr([k \in 1..Len(d.v) |-> RowWithout(d.v[k], columns)])
    ELSE RowWithout(d, columns)

\* a call of upsertWithAutoDrop is in progress, or has just thrown
InCall ==
    \/ pc = "upsert"
    \/ /\ pc = "idle"
       /\ IsFailure(response)
       /\ ops # <<>>
       /\ ops[Len(ops)].op = "upsert"

\* C23: exactly the unknown columns are shed.  The payload of every attempt
\* is the original payload with precisely the columns of droppedColumns
\* removed from every row; the number and order of the rows and every other
\* column and value are unchanged, and the original rows are not changed.
C23_ExactlyDroppedShed ==
    /\ []((handlerCopy = 1 /\ InCall)
          => /\ dataToSend = PayloadWithout(CallPayload, Range(droppedColumns))
             /\ LET a == AttemptsOfCall
                IN  \A k \in 1..Len(a) :
                       /\ a[k].ids = PayloadIds(CallPayload)
                       /\ a[k].cols =
                             PayloadColumns(CallPayload)
                             \ {droppedColumns[l] : l \in 1..(k - 1)})
    /\ [][(handlerCopy = 1 /\ pc = "upsert")
          => req' = req /\ allData' = allData]_vars

\* a batch of several rows stripped of a column, its other columns intact
C23_Witness ==
    /\ handlerCopy = 1
    /\ pc = "upsert"
    /\ IsSyncRequest
    /\ Len(droppedColumns) = 1
    /\ Len(PayloadItems(dataToSend)) > 1
    /\ dataToSend # CallPayload
    /\ PayloadColumns(dataToSend) # {}

\* the ways one call of upsertWithAutoDrop can end against a table with the
\* columns `cols` whose only refusals are missing-column errors
RECURSIVE callOutcomes(_, _, _, _, _)
callOutcomes(content, cols, payload, dropped, n) ==
    IF n = maxAttempts
    THEN {[ok |-> FALSE, content |-> content, dropped |-> dropped]}
    ELSE LET missing == PayloadColumns(payload) \ cols
         IN  IF missing = {}
             THEN {[ok |-> TRUE, content |-> upsert(content, cols, payload),
                    dropped |-> dropped]}
             ELSE UNION {callOutcomes(content, cols,
                                      removeColumnFromData(payload, c),
                                      Append(dropped, c), n + 1) :
                            c \in ReportedColumns(missing)}

\* the ways the batch loop of SYNC_ALL can end from the batch at `offset`
\* on; with `carry`, a batch starts without the columns dropped by the
\* batches before it, otherwise from the full rows, as lines 183-194 do
RECURSIVE syncOutcomes(_, _, _, _, _, _)
syncOutcomes(carry, content, cols, rows, offset, set) ==
    IF offset >= Len(rows)
    THEN {[content |-> content,
           response |-> SuccessResponse([synced |-> Len(rows),
                                         table |-> req.table,
                                         droppedColumns |-> set])]}
    ELSE LET batch == batchOf(rows, offset)
             first == IF carry THEN PayloadWithout(batch, Range(set))
                      ELSE batch
         IN  UNION {IF o.ok
                    THEN syncOutcomes(carry, o.content, cols, rows,
                                      nextOffset(offset),
                                      addAll(set, o.dropped))
                    ELSE {[content |-> o.content,
                           response |->
                              CatchResponse(ExhaustedError(o.dropped))]} :
                       o \in callOutcomes(content, cols, first,
                                          newDroppedColumns, 0)}

\* SYNC_ALL has read the primary and ended, the secondary's schema did not
\* change meanwhile and the store refused nothing but missing columns
SyncAllOnFixedSchema ==
    /\ handlerCopy = 1
    /\ IsSyncRequest
    /\ Idle
    /\ ops # <<>>
    /\ OnlySchemaReplies
    /\ schema = schemaBefore

\* C24: per-batch rediscovery is observationally equivalent to carrying the
\* dropped set across batches.  Against a secondary with a fixed schema,
\* SYNC_ALL ends with secondary contents, outcome and droppedColumns that
\* the variant which starts each batch without the columns dropped by the
\* earlier batches can end with, and the two have the same possible ends.
C24_RediscoveryEquivalent ==
    SyncAllOnFixedSchema
    => LET start == dbBefore["secondary"][req.table]
           cols == schema["secondary"][req.table]
           rediscovered == syncOutcomes(FALSE, start, cols, allData, 0, <<>>)
           carried == syncOutcomes(TRUE, start, cols, allData, 0, <<>>)
       IN  /\ [content |-> secondary[req.table], response |-> response]
                 \in carried
           /\ rediscovered = carried

\* a second batch that dropped again the column the first had dropped
C24_Witness ==
    /\ SyncAllOnFixedSchema
    /\ IsSuccess(response)
    /\ Len(batchDrops) >= 2
    /\ batchDrops[2] # <<>>
    /\ response.body.result.droppedColumns = batchDrops[1]

\* the k-th operation of req is the first upsert attempt of a batch
FirstAttempt(k) ==
    /\ ops[k].op = "upsert"
    /\ k > 1
    /\ ops[k - 1].op = "select" \/ ops[k - 1].reply = NoError

\* C25: projection of SYNC_ALL.  For a table with an allow-list entry every
\* row sent to the secondary has only columns of that entry; for a table
\* without one, all the columns of the primary's rows are sent.
C25_SyncAllProjection ==
    IsSyncRequest
    => \A k \in 1..Len(ops) :
          ops[k].op = "upsert"
          => IF req.table \in DOMAIN tableColumns
             THEN ops[k].cols \subseteq Range(tableColumns[req.table])
             ELSE /\ ops[k].cols \subseteq schema["primary"][req.table]
                  /\ FirstAttempt(k)
                        => ops[k].cols = schema["primary"][req.table]

\* rows of a listed table whose primary has a column outside the list, and
\* rows of an unlisted table, have both been sent
C25_Witness ==
    /\ IsSyncRequest
    /\ req.table \in DOMAIN tableColumns
    /\ schema["primary"][req.table] \ Range(tableColumns[req.table]) # {}
    /\ \E k \in 1..Len(ops) : ops[k].op = "upsert" /\ ops[k].reply = NoError

C25_WitnessUnlisted ==
    /\ IsSyncRequest
    /\ req.table \notin DOMAIN tableColumns
    /\ \E k \in 1..Len(ops) :
          /\ FirstAttempt(k)
          /\ ops[k].cols = schema["primary"][req.table]
          /\ "ghost_column" \in ops[k].cols

\* the columns of the request's row that the secondary lacks
LackedColumns ==
    PayloadColumns(req.data) \ schemaBefore["secondary"][req.table]

\* the call of an INSERT or UPDATE request has ended, and the store refused
\* nothing but missing columns
UpsertEndedOnSchema ==
    /\ handlerCopy = 1
    /\ IsUpsertRequest
    /\ Idle
    /\ ops # <<>>
    /\ OnlySchemaReplies
    /\ schema = schemaBefore

\* C26: a secondary that lacks k columns of the payload and reports them
\* one per attempt is tolerated for k <= 9 only.  With k = 10 the tenth
\* attempt drops the tenth column, the fully stripped payload is never
\* sent, and the call fails with the exhausted-retry error although that
\* payload would have been accepted.
C26_TenColumnsNotTolerated ==
    UpsertEndedOnSchema
    => LET k == Cardinality(LackedColumns)
       IN  /\ k <= 9
              => /\ IsSuccess(response)
                 /\ Len(ops) = k + 1
                 /\ Range(droppedColumns) = LackedColumns
           /\ k = 10
              => /\ Len(ops) = 10
                 /\ \A n \in 1..10 : ops[n].reply # NoError
                 /\ Range(droppedColumns) = LackedColumns
                 /\ NoError \in upsertReplies(req.table,
                                              schema["secondary"][req.table],
                                              dataToSend)
                 /\ response = CatchResponse(ExhaustedError(droppedColumns))
                 /\ db = dbBefore

C26_Witness ==
    /\ UpsertEndedOnSchema
    /\ Cardinality(LackedColumns) = 10
    /\ IsFailure(response)
    /\ PayloadColumns(dataToSend) \subseteq schema["secondary"][req.table]

\* nine columns lacked, the tenth attempt accepted
C26_WitnessNine ==
    /\ UpsertEndedOnSchema
    /\ Cardinality(LackedColumns) = 9
    /\ Len(ops) = 10
    /\ IsSuccess(response)

\* the ids of the primary's rows of the request's table
PrimaryIds ==
    {primary[req.table][k]["id"] : k \in 1..Len(primary[req.table])}

\* SYNC_ALL has ended with success and the secondary's schema did not change
\* meanwhile
SyncAllDoneAlone ==
    /\ IsSyncRequest
    /\ Idle
    /\ IsSuccess(response)
    /\ schema = schemaBefore

\* C27: SYNC_ALL never deletes from the secondary.  After a successful
\* SYNC_ALL with no concurrent change every id of the primary's table is
\* in the secondary's, and every row the secondary had before the call
\* with no counterpart in the primary is still there, unchanged.
C27_SyncAllNeverDeletes ==
    SyncAllDoneAlone
    => /\ PrimaryIds \subseteq DOMAIN secondary[req.table]
       /\ \A x \in DOMAIN dbBefore["secondary"][req.table] :
             x \notin PrimaryIds
             => /\ x \in DOMAIN secondary[req.table]
                /\ secondary[req.table][x] = dbBefore["secondary"][req.table][x]

\* a row of the secondary with no counterpart outlived a SYNC_ALL that
\* stored the primary's row
C27_Witness ==
    /\ SyncAllDoneAlone
    /\ PrimaryIds = {1}
    /\ 2 \in DOMAIN secondary[req.table]
    /\ secondary[req.table] # dbBefore["secondary"][req.table]
    /\ DOMAIN secondary[req.table] # PrimaryIds

\* a POST whose operation is none of the four has been answered
UnknownOperationAnswered ==
    /\ Idle
    /\ req.method = "POST"
    /\ req.operation \notin {"INSERT", "UPDATE", "DELETE", "SYNC_ALL"}

\* C30 as stated: a request whose operation is not one of INSERT, UPDATE,
\* DELETE, SYNC_ALL ends with an error response of status 500 whose message
\* names the unknown operation, and issues no operation against either store.
C30_AsStated ==
    UnknownOperationAnswered
    => /\ response.status = 500
       /\ req.operation \in Range(response.body.error)
       /\ ops = <<>>
       /\ db = dbBefore

\* C30, amended: such a request issues no operation against either store
\* and ends with status 500; the message names the unknown operation when
\* the secondary's credentials are configured, and is the configuration
\* error otherwise, the credentials being tested before the operation.
C30_UnknownOperation ==
    UnknownOperationAnswered
    => /\ response.status = 500
       /\ ops = <<>>
       /\ db = dbBefore
       /\ IF cfg.externalUrl = "set" /\ cfg.externalKey = "set"
          THEN response.body.error = <<"Unknown operation: ", req.operation>>
          ELSE response = CredentialsResponse(credentialsText)

C30_Witness ==
    /\ UnknownOperationAnswered
    /\ req.operation = "MERGE"
    /\ cfg.externalUrl = "set" /\ cfg.externalKey = "set"
    /\ response.body.error = <<"Unknown operation: ", "MERGE">>

\* the handler is suspended at its await on the primary
AtPrimaryAwait == uiPc \in {"insert", "update", "delete"}

\* the primary answers the handler with { error: null }: the write is
\* committed in the step that resumes the handler
PrimarySucceeds == AtPrimaryAwait /\ Len(commits') = Len(commits) + 1

\* a run of a handler ends without a committed write: on the validation
\* toast, or on the primary's error
ValidationFails == uiPc = "idle" /\ toast' = "invalid"
PrimaryFails == AtPrimaryAwait /\ commits' = commits

\* C29: in every replicating surface no replication request is issued when
\* the form validation fails or when the primary insert, update or delete
\* returns an error, and a request that is issued is issued after the
\* primary write has returned successfully: the k-th request issued is the
\* request of the k-th committed write, and it is issued in the step in
\* which the handler resumes from a successful primary write.
C29_ReplicationFollowsCommit ==
    /\ [](replicates(surface) =>
             /\ Len(sent) <= Len(commits)
             /\ \A k \in 1..Len(sent) : sent[k] = RequestFor(commits[k]))
    /\ [][replicates(surface) =>
             /\ (ValidationFails \/ PrimaryFails) => sent' = sent
             /\ sent' # sent =>
                   /\ PrimarySucceeds
                   /\ sent' = Append(sent, RequestFor(commits'[Len(commits')]))
                   /\ net' = net \cup {[n |-> Len(sent'),
                                        payload |-> sent'[Len(sent')]]}]_vars

\* a replicating surface after a committed write and its request, followed
\* by a write the primary refused: no second request
C29_Witness ==
    /\ replicates(surface)
    /\ toast = "error"
    /\ Len(commits) = 1
    /\ Len(sent) = 1
    /\ uiPc = "idle"

\* a replicating surface after a submission whose validation failed
C29_WitnessInvalid ==
    /\ replicates(surface)
    /\ toast = "invalid"
    /\ sent = <<>>
    /\ dialogOpen /\ ~saving

\* C28: in AuthProvider, under every interleaving of signIn, signOut,
\* auth-state-change events and pending role fetches, a role that is not
\* null is the role fetched for the user of the current session: there is
\* a session, and the role is that user's row of user_roles.
C28_RoleOfCurrentSession ==
    authRole # NoRole
    => /\ authSession # NoUser
       /\ authRole = user_roles[authSession]

\* the role of a user who has signed out: no session, in the provider or in
\* the client, no fetch pending, and a role installed by a deferred fetch
StaleRoleAfterSignOut ==
    /\ authClient = NoUser
    /\ authSession = NoUser
    /\ authRole # NoRole
    /\ fetches = {} /\ timers = {}
    /\ signInPc = SignInIdle /\ ~signOutPc

====
